---------------------------- MODULE Spec2Model ----------------------------
(***************************************************************************)
(* The GPU surface bridge of agus-maps-flutter.                            *)
(*                                                                         *)
(*  Spec      the Windows surface lifecycle (agus_maps_flutter_win.cpp)    *)
(*            driving one AgusAngleContextFactory; every exported call is  *)
(*            one action.                                                  *)
(*  SpecRace  the same Resize / Destroy code taken statement by statement  *)
(*            on the control thread, interleaved with the draw thread.     *)
(*  SpecInit  AgusAngleContextFactory::WaitForInitialization, called by    *)
(*            the upload thread and the draw thread.                       *)
(*  SpecOGL   the Android lifecycle (agus_maps_flutter.cpp) and            *)
(*            AgusOGLContextFactory (agus_ogl.cpp).                        *)
(*                                                                         *)
(* Calls into the rendering engine (Framework) are outside this            *)
(* repository; they are modelled by what the bridge observes of them: a    *)
(* call is counted and returns.  Native resources (EGL surfaces, EGL       *)
(* contexts, D3D textures, shared handles) are identified by positive      *)
(* numbers; 0 is the null value (EGL_NO_SURFACE, EGL_NO_CONTEXT, nullptr). *)
(***************************************************************************)
EXTENDS Integers, FiniteSets, Sequences, TLC

\* The callers pass every positive size up to MaxWidth x MaxHeight and the
\* two kinds of size without extent; 0 stands for the non-positive values.
MaxWidth == 2
MaxHeight == 1

\* Number of WaitForInitialization calls each engine thread makes.
MaxWaitCalls == 3

Sizes ==
  ((1..MaxWidth) \X (1..MaxHeight)) \cup {<<0, 1>>, <<1, 0>>}

Width(size) == size[1]
Height(size) == size[2]

\* The engine's two threads that own a graphics context.
GLThreads == {"upload", "draw"}

\* The frame notifier's rate limit, in milliseconds.
kMinFrameInterval == 16

\* The steady clock advances TickMs at a time up to MaxClock milliseconds.
TickMs == 8
MaxClock == 48

\* Threads on which the engine reports an active frame.
NotifierThreads == {"t1", "t2"}

\* What the registered callback can do when it is called.
CallbackOutcomes == {"returns", "std::exception", "other exception"}

\* Threads that push tasks to the GUI thread, the number of Push calls
\* they make between them, and the ways a task ends.
Pushers == {"p1", "p2"}
MaxPushes == 3
TaskOutcomes == {"returns", "std::exception"}

\* Duplicate handles the compositor holds at one time.
MaxDuplicates == 2

\* DXGI_FORMAT_R8G8B8A8_UNORM, the format of the shared texture, and
\* kFlutterDesktopPixelFormatBGRA8888, the format the plugin announces, by
\* the order of their channels in memory.
PixelLayout(format) ==
  CASE format = "DXGI_FORMAT_R8G8B8A8_UNORM" -> <<"R", "G", "B", "A">>
    [] format = "kFlutterDesktopPixelFormatBGRA8888" -> <<"B", "G", "R", "A">>
    [] OTHER -> <<>>

\* The smallest positive number that is not in used: a newly allocated
\* native object never carries the identity of one still referenced.
Fresh(used) ==
  CHOOSE i \in 1..(Cardinality(used) + 1) :
    i \notin used /\ \A j \in 1..(i - 1) : j \in used

VARIABLES
  \* agus_maps_flutter_win.cpp globals
  g_platformInitialized, g_framework, g_factory, g_angleFactory,
  g_drapeEngineCreated, g_surfaceWidth, g_surfaceHeight,
  \* the AgusAngleContextFactory behind g_angleFactory, with the native
  \* objects the operating system holds for it
  world,
  \* what the rendering engine has observed
  engine,
  \* the surface call (create, resize, destroy) made last and how it ended;
  \* NoCall once anything else has happened since
  lastCall,
  \* SpecRace: the control and draw threads' positions
  ctl, draw,
  \* SpecInit: the rendezvous members of one AgusAngleContextFactory and
  \* the two engine threads calling WaitForInitialization
  rendezvous, waiter,
  \* SpecOGL: agus_maps_flutter.cpp globals and the AgusOGLContextFactory
  android,
  \* SpecNotify: the frame notifier of agus_maps_flutter_win.cpp, the
  \* steady clock and the threads calling notifyFlutterFrameReady
  notifier,
  \* SpecPlugin: the Flutter plugin's surface members and the handles the
  \* operating system holds for the compositor
  plugin,
  \* SpecGui: the members of one AgusGuiThreadWin, its worker thread, the
  \* threads pushing tasks and the thread destroying it
  gui,
  \* SpecContext: the draw and upload contexts of one display and the
  \* context current on each engine thread
  egl,
  \* SpecFactory: one context factory, constructed once and then called
  fut,
  \* SpecHandle: the compositor thread inside comaps_get_shared_handle
  req,
  \* SpecTexture: the plugin's texture, the registrar's registered ids, the
  \* platform thread inside a plugin call and the render thread inside the
  \* frame-ready callback
  reg

winVars == <<g_platformInitialized, g_framework, g_factory, g_angleFactory,
             g_drapeEngineCreated, g_surfaceWidth, g_surfaceHeight,
             world, engine, lastCall>>
raceVars == <<ctl, draw>>
initVars == <<rendezvous, waiter>>
oglVars == <<android>>
classVars == <<gui, egl, fut, req, reg>>
sideVars == <<notifier, plugin, classVars>>
coreVars == <<winVars, raceVars, initVars, oglVars>>
vars == <<coreVars, sideVars>>

-----------------------------------------------------------------------------
(* AgusAngleContext                                                        *)

NullContext ==
  [exists |-> FALSE, m_nativeContext |-> 0, m_surface |-> 0,
   m_presentAvailable |-> FALSE, sharedContext |-> 0]

\* AgusAngleContext::AgusAngleContext: nativeContext is what eglCreateContext
\* returned (0 when it failed); sharedContext is the native context of
\* contextToShareWith (0 for nullptr).
AgusAngleContext(surface, contextToShareWith, nativeContext) ==
  [exists |-> TRUE,
   m_nativeContext |-> nativeContext,
   m_surface |-> surface,
   m_presentAvailable |-> TRUE,
   sharedContext |-> IF contextToShareWith.exists
                     THEN contextToShareWith.m_nativeContext ELSE 0]

\* AgusAngleContext::SetSurface
ContextSetSurface(c, surface) == [c EXCEPT !.m_surface = surface]

\* AgusAngleContext::SetPresentAvailable
ContextSetPresentAvailable(c, available) ==
  [c EXCEPT !.m_presentAvailable = available]

-----------------------------------------------------------------------------
(* AgusAngleContextFactory.  A world w holds the factory's members (w.f)   *)
(* and the native objects alive in the operating system: w.surfaces are    *)
(* the EGL surfaces not yet destroyed, w.handles the shared handles not    *)
(* yet closed, w.contexts the EGL contexts not yet destroyed.              *)

NoFactory ==
  [m_width |-> 0, m_height |-> 0, m_isValid |-> FALSE, m_eglDisplay |-> FALSE,
   m_sharedTexture |-> 0, m_sharedHandle |-> 0, m_pbufferSurface |-> 0,
   m_drawContext |-> NullContext, m_uploadContext |-> NullContext]

NoWorld == [f |-> NoFactory, surfaces |-> {}, handles |-> {}]

UsedSurfaces(w) ==
  (w.surfaces \cup {w.f.m_pbufferSurface, w.f.m_drawContext.m_surface,
                    w.f.m_uploadContext.m_surface}) \ {0}

UsedHandles(w) == (w.handles \cup {w.f.m_sharedHandle}) \ {0}

UsedContexts(w) ==
  {w.f.m_drawContext.m_nativeContext, w.f.m_uploadContext.m_nativeContext}
    \ {0}

\* How the native calls of one allocation end: "ok", or the first call that
\* fails.
PlatformFailures ==
  {"D3D11CreateDevice", "eglGetPlatformDisplay", "eglInitialize"}
TextureFailures == {"CreateTexture2D", "GetSharedHandle"}
SurfaceFailures == {"eglCreatePbufferSurface"}

\* CreateSharedTexture, lines 509-514: the existing texture is released and
\* the existing shared handle closed before anything is created.
ReleaseSharedTexture(w) ==
  [w EXCEPT !.f.m_sharedTexture = 0,
            !.f.m_sharedHandle = 0,
            !.handles = w.handles \ {w.f.m_sharedHandle}]

\* CreateSharedTexture, lines 516-556, on the world w left by the release;
\* old is the world before the release, whose identities are not reused.
\* The texture is created with the width and height passed in.
AllocateSharedTexture(w, old, width, height, outcome) ==
  IF outcome = "CreateTexture2D"
  THEN [w |-> w, ok |-> FALSE]
  ELSE LET tex == Fresh({old.f.m_sharedTexture} \ {0})
           h   == Fresh(UsedHandles(old))
       IN IF outcome = "GetSharedHandle"
          THEN [w |-> [w EXCEPT !.f.m_sharedTexture = tex], ok |-> FALSE]
          ELSE [w |-> [w EXCEPT !.f.m_sharedTexture = tex,
                                !.f.m_sharedHandle = h,
                                !.handles = w.handles \cup {h}],
                ok |-> TRUE]

\* AgusAngleContextFactory::CreateSharedTexture
CreateSharedTexture(w, width, height, outcome) ==
  AllocateSharedTexture(ReleaseSharedTexture(w), w, width, height, outcome)

\* CreatePbufferSurface, lines 563-567: the existing surface is destroyed
\* first.
DestroyPbufferSurface(w) ==
  IF w.f.m_pbufferSurface # 0
  THEN [w EXCEPT !.f.m_pbufferSurface = 0,
                 !.surfaces = w.surfaces \ {w.f.m_pbufferSurface}]
  ELSE w

\* CreatePbufferSurface, lines 569-622, on the world w left by the destroy:
\* the outcome "eglCreatePbufferSurface" is eglCreatePbufferFromClientBuffer
\* and the fallback eglCreatePbufferSurface both returning no surface.
AllocatePbufferSurface(w, old, outcome) ==
  IF outcome = "eglCreatePbufferSurface"
  THEN [w |-> w, ok |-> FALSE]
  ELSE LET s == Fresh(UsedSurfaces(old))
       IN [w |-> [w EXCEPT !.f.m_pbufferSurface = s,
                           !.surfaces = w.surfaces \cup {s}],
           ok |-> TRUE]

\* AgusAngleContextFactory::CreatePbufferSurface
CreatePbufferSurface(w, outcome) ==
  AllocatePbufferSurface(DestroyPbufferSurface(w), w, outcome)

\* Resize, lines 713-716
RebindDrawContext(w) ==
  IF w.f.m_drawContext.exists
  THEN [w EXCEPT !.f.m_drawContext =
                   ContextSetSurface(w.f.m_drawContext, w.f.m_pbufferSurface)]
  ELSE w

\* A Resize that takes no early return.
ResizeIsNeverNoOp(w, width, height) == FALSE

\* Resize, lines 692-694
ResizeIsNoOp(w, width, height) ==
  width = w.f.m_width /\ height = w.f.m_height

\* Resize, lines 699-700
SetSize(w, width, height) ==
  [w EXCEPT !.f.m_width = width, !.f.m_height = height]

\* AgusAngleContextFactory::Resize
Resize(w, width, height, outcome) ==
  IF ResizeIsNoOp(w, width, height)
  THEN w
  ELSE LET tex == CreateSharedTexture(SetSize(w, width, height),
                                      width, height, outcome)
       IN IF ~tex.ok
          THEN tex.w
          ELSE LET surf == CreatePbufferSurface(tex.w, outcome)
               IN IF ~surf.ok THEN surf.w ELSE RebindDrawContext(surf.w)

\* A constructor that reports the factory valid whatever its native calls
\* returned.
AgusAngleContextFactoryValid(width, height, outcome) ==
  [f |-> [NoFactory EXCEPT !.m_width = width, !.m_height = height,
                           !.m_isValid = TRUE],
   surfaces |-> {}, handles |-> {}]

\* AgusAngleContextFactory::AgusAngleContextFactory.  InitializeANGLE leaves
\* m_eglDisplay set when eglInitialize fails on the display it obtained.
AgusAngleContextFactory(width, height, outcome) ==
  LET sized == SetSize(NoWorld, width, height)
      disp  == [sized EXCEPT !.f.m_eglDisplay = TRUE]
  IN CASE outcome = "D3D11CreateDevice" -> sized
       [] outcome = "eglGetPlatformDisplay" -> sized
       [] outcome = "eglInitialize" -> disp
       [] OTHER ->
            LET tex == CreateSharedTexture(disp, width, height, outcome)
            IN IF ~tex.ok
               THEN tex.w
               ELSE LET surf == CreatePbufferSurface(tex.w, outcome)
                    IN IF ~surf.ok
                       THEN surf.w
                       ELSE [surf.w EXCEPT !.f.m_isValid = TRUE]

\* A factory that reports itself valid whatever its construction did.
IsValidAlways(w) == TRUE

\* AgusAngleContextFactory::IsValid
IsValid(w) == w.f.m_isValid

\* AgusAngleContextFactory::GetResourcesUploadContext: the 1x1 Pbuffer
\* surface is created, then the context; contextCreated says whether
\* eglCreateContext returned a context.
GetResourcesUploadContext(w, contextCreated) ==
  IF ~w.f.m_uploadContext.exists /\ w.f.m_eglDisplay
  THEN LET s == Fresh(UsedSurfaces(w))
           c == IF contextCreated THEN Fresh(UsedContexts(w)) ELSE 0
       IN [w EXCEPT !.f.m_uploadContext = AgusAngleContext(s, NullContext, c),
                    !.surfaces = w.surfaces \cup {s}]
  ELSE w

\* A GetDrawContext that constructs a draw context on every call.
GetDrawContextAnew(w, uploadCreated, contextCreated) ==
  LET up == GetResourcesUploadContext(w, uploadCreated)
      c  == IF contextCreated THEN Fresh(UsedContexts(up)) ELSE 0
  IN [up EXCEPT !.f.m_drawContext =
                   AgusAngleContext(up.f.m_pbufferSurface,
                                    up.f.m_uploadContext, c)]

\* AgusAngleContextFactory::GetDrawContext: uploadCreated and contextCreated
\* say whether eglCreateContext returned a context for the upload context
\* it may create first and for the draw context.
GetDrawContext(w, uploadCreated, contextCreated) ==
  IF ~w.f.m_drawContext.exists /\ w.f.m_eglDisplay
  THEN LET up == GetResourcesUploadContext(w, uploadCreated)
           c  == IF contextCreated THEN Fresh(UsedContexts(up)) ELSE 0
       IN [up EXCEPT !.f.m_drawContext =
                        AgusAngleContext(up.f.m_pbufferSurface,
                                         up.f.m_uploadContext, c)]
  ELSE w

\* AgusAngleContextFactory::SetPresentAvailable
SetPresentAvailable(w, available) ==
  IF w.f.m_drawContext.exists
  THEN [w EXCEPT !.f.m_drawContext =
                   ContextSetPresentAvailable(w.f.m_drawContext, available)]
  ELSE w

\* A destructor that releases nothing.
LeakFactory(w) == w

\* AgusAngleContextFactory::~AgusAngleContextFactory: both contexts are
\* deleted, the Pbuffer surface is destroyed and eglTerminate releases what
\* the display still holds; the ComPtr releases the texture and with it the
\* shared handle that names it.
DestroyFactory(w) == NoWorld

-----------------------------------------------------------------------------
(* agus_maps_flutter_win.cpp: the surface lifecycle, one action per         *)
(* exported call.                                                          *)

NoEngine ==
  [factory |-> 0, drapeEngines |-> 0, renderingDisabled |-> FALSE]

NoCall ==
  [op |-> "none", ret |-> 0, sameSize |-> FALSE, sameTarget |-> FALSE,
   allocationFailed |-> FALSE, onSize |-> FALSE]

Call(op, ret) == [NoCall EXCEPT !.op = op, !.ret = ret]

\* What the native calls can answer for a target of this size: the Direct3D
\* device refuses a texture without extent.
CreateOutcomes(width, height) ==
  IF width <= 0 \/ height <= 0
  THEN PlatformFailures \cup {"CreateTexture2D"}
  ELSE PlatformFailures \cup TextureFailures \cup SurfaceFailures \cup {"ok"}

ResizeOutcomes(width, height) ==
  IF width <= 0 \/ height <= 0
  THEN {"CreateTexture2D"}
  ELSE TextureFailures \cup SurfaceFailures \cup {"ok"}

\* Framework::CreateDrapeEngine(make_ref(g_factory), p), as the engine sees
\* it.
CreateDrapeEngine(e, factory) ==
  [e EXCEPT !.factory = factory, !.drapeEngines = e.drapeEngines + 1,
            !.renderingDisabled = FALSE]

\* Framework::SetRenderingDisabled(true)
SetRenderingDisabled(e) == [e EXCEPT !.renderingDisabled = TRUE]

\* createDrapeEngineIfNeeded without the test of g_drapeEngineCreated.
createDrapeEngineUnlessInvalid(e, created, framework, factory, width, height) ==
  IF ~framework \/ width <= 0 \/ height <= 0 \/ factory = 0
  THEN [engine |-> e, created |-> created]
  ELSE [engine |-> CreateDrapeEngine(e, factory), created |-> TRUE]

\* createDrapeEngineIfNeeded (agus_maps_flutter_win.cpp): the engine and the
\* flag it leaves, given the globals at the call.
createDrapeEngineIfNeeded(e, created, framework, factory, width, height) ==
  IF created \/ ~framework
  THEN [engine |-> e, created |-> created]
  ELSE IF width <= 0 \/ height <= 0
  THEN [engine |-> e, created |-> created]
  ELSE IF factory = 0
  THEN [engine |-> e, created |-> created]
  ELSE [engine |-> CreateDrapeEngine(e, factory), created |-> TRUE]

\* comaps_init_paths
comaps_init_paths ==
  /\ g_platformInitialized' = TRUE
  /\ lastCall' = NoCall
  /\ UNCHANGED <<g_framework, g_factory, g_angleFactory, g_drapeEngineCreated,
                 g_surfaceWidth, g_surfaceHeight, world, engine>>

\* comaps_create_surface
comaps_create_surface(width, height, outcome) ==
  IF ~g_platformInitialized
  THEN /\ lastCall' = Call("create", -1)
       /\ UNCHANGED <<g_platformInitialized, g_framework, g_factory,
                      g_angleFactory, g_drapeEngineCreated, g_surfaceWidth,
                      g_surfaceHeight, world, engine>>
  ELSE LET angleFactory == AgusAngleContextFactory(width, height, outcome)
           id == Fresh({g_factory, g_angleFactory, engine.factory} \ {0})
           drape == createDrapeEngineIfNeeded(engine, g_drapeEngineCreated,
                                              TRUE, id, width, height)
       IN /\ g_surfaceWidth' = width
          /\ g_surfaceHeight' = height
          /\ g_framework' = TRUE
          /\ UNCHANGED g_platformInitialized
          /\ IF ~IsValid(angleFactory)
             THEN /\ lastCall' = Call("create", -2)
                  /\ UNCHANGED <<g_factory, g_angleFactory,
                                 g_drapeEngineCreated, world, engine>>
             ELSE /\ g_angleFactory' = id
                  /\ g_factory' = id
                  /\ world' = angleFactory
                  /\ engine' = drape.engine
                  /\ g_drapeEngineCreated' = drape.created
                  /\ lastCall' = Call("create", 0)

\* comaps_resize_surface.  Framework::OnSize is recorded in the call: the
\* engine keeps the size to itself.
comaps_resize_surface(width, height, outcome) ==
  LET same == width = g_surfaceWidth /\ height = g_surfaceHeight
      sameTarget == /\ g_angleFactory # 0
                    /\ width = world.f.m_width /\ height = world.f.m_height
      call == [Call("resize", 0) EXCEPT
                 !.sameSize = same,
                 !.sameTarget = sameTarget,
                 !.allocationFailed =
                    /\ ~same /\ g_angleFactory # 0 /\ ~sameTarget
                    /\ outcome # "ok",
                 !.onSize = ~same /\ g_framework /\ g_drapeEngineCreated]
  IN /\ lastCall' = call
     /\ UNCHANGED <<g_platformInitialized, g_framework, g_factory,
                    g_angleFactory, g_drapeEngineCreated>>
     /\ IF same
        THEN UNCHANGED <<g_surfaceWidth, g_surfaceHeight, world, engine>>
        ELSE /\ g_surfaceWidth' = width
             /\ g_surfaceHeight' = height
             /\ world' = IF g_angleFactory # 0
                         THEN Resize(world, width, height, outcome)
                         ELSE world
             /\ UNCHANGED engine

\* comaps_destroy_surface.  drapeEngines counts the engines created since
\* the last destroy.
comaps_destroy_surface ==
  /\ engine' = [(IF g_framework /\ g_drapeEngineCreated
                 THEN SetRenderingDisabled(engine)
                 ELSE engine) EXCEPT !.drapeEngines = 0]
  /\ world' = DestroyFactory(world)
  /\ g_factory' = 0
  /\ g_angleFactory' = 0
  /\ g_drapeEngineCreated' = FALSE
  /\ lastCall' = Call("destroy", 0)
  /\ UNCHANGED <<g_platformInitialized, g_framework, g_surfaceWidth,
                 g_surfaceHeight>>

\* The engine's threads ask the factory it was given for their contexts
\* (dp::ThreadSafeFactory forwards to the AgusAngleContextFactory it owns).
EngineGetDrawContext(uploadCreated, contextCreated) ==
  /\ engine.factory # 0 /\ engine.factory = g_factory
  /\ world' = GetDrawContext(world, uploadCreated, contextCreated)
  /\ lastCall' = NoCall
  /\ UNCHANGED <<g_platformInitialized, g_framework, g_factory,
                 g_angleFactory, g_drapeEngineCreated, g_surfaceWidth,
                 g_surfaceHeight, engine>>

EngineGetResourcesUploadContext(contextCreated) ==
  /\ engine.factory # 0 /\ engine.factory = g_factory
  /\ world' = GetResourcesUploadContext(world, contextCreated)
  /\ lastCall' = NoCall
  /\ UNCHANGED <<g_platformInitialized, g_framework, g_factory,
                 g_angleFactory, g_drapeEngineCreated, g_surfaceWidth,
                 g_surfaceHeight, engine>>

-----------------------------------------------------------------------------
(* agus_ogl.cpp: AgusOGLContext and AgusOGLContextFactory, and the Android  *)
(* lifecycle of agus_maps_flutter.cpp that drives them.                    *)

\* AgusOGLContext::AgusOGLContext: nativeContext is what eglCreateContext
\* returned (0 for EGL_NO_CONTEXT).
AgusOGLContext(surface, contextToShareWith, nativeContext) ==
  [exists |-> TRUE, m_nativeContext |-> nativeContext, m_surface |-> surface,
   m_presentAvailable |-> TRUE,
   sharedContext |-> IF contextToShareWith.exists
                     THEN contextToShareWith.m_nativeContext ELSE 0]

NoOGLFactory ==
  [m_display |-> FALSE, m_nativeWindow |-> FALSE, m_windowSurface |-> 0,
   m_pixelbufferSurface |-> 0, m_windowSurfaceValid |-> FALSE,
   m_config |-> FALSE,
   m_drawContext |-> NullContext, m_uploadContext |-> NullContext]

OGLFailures ==
  {"eglGetDisplay", "eglInitialize", "eglChooseConfig",
   "eglCreateWindowSurface", "eglCreatePbufferSurface"}

OGLUsedSurfaces(f) ==
  {f.m_windowSurface, f.m_pixelbufferSurface, f.m_drawContext.m_surface,
   f.m_uploadContext.m_surface} \ {0}

OGLUsedContexts(f) ==
  {f.m_drawContext.m_nativeContext, f.m_uploadContext.m_nativeContext} \ {0}

\* AgusOGLContextFactory::CreateWindowSurface
CreateWindowSurface(f, outcome) ==
  IF outcome = "eglChooseConfig"
  THEN [f |-> f, ok |-> FALSE]
  ELSE IF outcome = "eglCreateWindowSurface"
  THEN [f |-> [f EXCEPT !.m_config = TRUE, !.m_windowSurface = 0],
        ok |-> FALSE]
  ELSE [f |-> [f EXCEPT !.m_config = TRUE,
                        !.m_windowSurface = Fresh(OGLUsedSurfaces(f))],
        ok |-> TRUE]

\* AgusOGLContextFactory::SetSurface; QuerySurfaceSize always returns true.
OGLSetSurface(f, window, outcome) ==
  LET g == [f EXCEPT !.m_nativeWindow = window]
  IN IF ~window
     THEN g
     ELSE LET made == CreateWindowSurface(g, outcome)
          IN IF ~made.ok
             THEN made.f
             ELSE [made.f EXCEPT
                     !.m_drawContext =
                        IF made.f.m_drawContext.exists
                        THEN ContextSetSurface(made.f.m_drawContext,
                                               made.f.m_windowSurface)
                        ELSE made.f.m_drawContext,
                     !.m_windowSurfaceValid = TRUE]

\* AgusOGLContextFactory::CreatePixelbufferSurface: eglCreatePbufferSurface
\* returns a surface only for a configuration that was chosen.
CreatePixelbufferSurface(f, outcome) ==
  IF outcome = "eglCreatePbufferSurface" \/ ~f.m_config
  THEN [f EXCEPT !.m_pixelbufferSurface = 0]
  ELSE [f EXCEPT !.m_pixelbufferSurface = Fresh(OGLUsedSurfaces(f))]

\* AgusOGLContextFactory::AgusOGLContextFactory
AgusOGLContextFactory(window, outcome) ==
  IF outcome = "eglGetDisplay"
  THEN NoOGLFactory
  ELSE LET disp == [NoOGLFactory EXCEPT !.m_display = TRUE]
       IN IF outcome = "eglInitialize"
          THEN disp
          ELSE CreatePixelbufferSurface(OGLSetSurface(disp, window, outcome),
                                        outcome)

\* AgusOGLContextFactory::IsValid
OGLIsValid(f) == f.m_windowSurfaceValid /\ f.m_pixelbufferSurface # 0

\* AgusOGLContextFactory::GetDrawContext
OGLGetDrawContext(f, contextCreated) ==
  IF ~f.m_drawContext.exists
  THEN [f EXCEPT !.m_drawContext =
                    AgusOGLContext(f.m_windowSurface, f.m_uploadContext,
                                   IF contextCreated
                                   THEN Fresh(OGLUsedContexts(f)) ELSE 0)]
  ELSE f

\* AgusOGLContextFactory::GetResourcesUploadContext
OGLGetResourcesUploadContext(f, contextCreated) ==
  IF ~f.m_uploadContext.exists
  THEN [f EXCEPT !.m_uploadContext =
                    AgusOGLContext(f.m_pixelbufferSurface, f.m_drawContext,
                                   IF contextCreated
                                   THEN Fresh(OGLUsedContexts(f)) ELSE 0)]
  ELSE f

\* AgusOGLContextFactory::WaitForInitialization (agus_ogl.cpp, "Simplistic
\* sync") and AgusMetalContextFactory::WaitForInitialization (an empty
\* body): whether the call blocks the calling thread in state f.
OGLWaitForInitializationBlocks(f) == FALSE

\* createDrapeEngineIfNeeded (agus_maps_flutter.cpp)
android_createDrapeEngineIfNeeded(e, created, framework, factory, width, height) ==
  IF created \/ ~framework
  THEN [engine |-> e, created |-> created]
  ELSE IF width <= 0 \/ height <= 0
  THEN [engine |-> e, created |-> created]
  ELSE IF factory = 0
  THEN [engine |-> e, created |-> created]
  ELSE [engine |-> CreateDrapeEngine(e, factory), created |-> TRUE]

\* comaps_init_paths (agus_maps_flutter.cpp)
android_comaps_init_paths ==
  android' = [android EXCEPT !.g_platformInitialized = TRUE,
                             !.lastCall = "none"]

\* nativeSetSurface: window says whether ANativeWindow_fromSurface returned
\* a window.  Assigning g_factory deletes the factory it held.
nativeSetSurface(window, width, height, outcome) ==
  IF ~android.g_platformInitialized
  THEN android' = [android EXCEPT !.lastCall = "none"]
  ELSE LET oglFactory == AgusOGLContextFactory(window, outcome)
           sized == [android EXCEPT !.g_surfaceWidth = width,
                                    !.g_surfaceHeight = height,
                                    !.g_framework = TRUE,
                                    !.lastCall = "setSurface"]
           id == Fresh({android.g_factory, android.engine.factory} \ {0})
           drape == android_createDrapeEngineIfNeeded(
                      android.engine, android.g_drapeEngineCreated, TRUE, id,
                      width, height)
       IN IF ~OGLIsValid(oglFactory)
          THEN android' = sized
          ELSE android' = [sized EXCEPT
                             !.g_factory = id,
                             !.f = oglFactory,
                             !.engine = drape.engine,
                             !.g_drapeEngineCreated = drape.created]

\* nativeOnSurfaceChanged: Framework::SetRenderingEnabled and OnSize
nativeOnSurfaceChanged(width, height) ==
  android' = [android EXCEPT
                !.g_surfaceWidth = width,
                !.g_surfaceHeight = height,
                !.lastCall = "none",
                !.engine.renderingDisabled =
                   IF android.g_factory # 0 /\ android.g_framework
                   THEN FALSE ELSE @]

\* nativeOnSurfaceDestroyed.  drapeEngines counts the engines created since
\* the last destroy.  g_factory and the factory it owns are not touched.
nativeOnSurfaceDestroyed ==
  android' = [android EXCEPT
                !.lastCall = "surfaceDestroyed",
                !.engine = IF android.g_framework
                           THEN [SetRenderingDisabled(@) EXCEPT
                                   !.drapeEngines = 0]
                           ELSE [@ EXCEPT !.drapeEngines = 0]]

\* nativeOnSizeChanged
nativeOnSizeChanged(width, height) ==
  android' = [android EXCEPT !.g_surfaceWidth = width,
                             !.g_surfaceHeight = height,
                             !.lastCall = "none"]

\* An engine thread asks the factory the engine was given for its context.
OGLConstruct(t, contextCreated) ==
  /\ android.thread[t] = "idle"
  /\ android.engine.factory # 0
  /\ android.engine.factory = android.g_factory
  /\ android' = [android EXCEPT
                   !.f = IF t = "upload"
                         THEN OGLGetResourcesUploadContext(@, contextCreated)
                         ELSE OGLGetDrawContext(@, contextCreated),
                   !.thread[t] = "constructed",
                   !.lastCall = "none"]

\* The thread then calls WaitForInitialization with its context.
OGLWaitForInitialization(t) ==
  /\ android.thread[t] = "constructed"
  /\ android.engine.factory = android.g_factory
  /\ ~OGLWaitForInitializationBlocks(android.f)
  /\ android' = [android EXCEPT !.thread[t] = "initialized",
                                !.lastCall = "none"]

WinInit ==
  /\ g_platformInitialized = FALSE
  /\ g_framework = FALSE
  /\ g_factory = 0
  /\ g_angleFactory = 0
  /\ g_drapeEngineCreated = FALSE
  /\ g_surfaceWidth = 0
  /\ g_surfaceHeight = 0
  /\ world = NoWorld
  /\ engine = NoEngine
  /\ lastCall = NoCall

IdleControl ==
  [pc |-> "idle", width |-> 0, height |-> 0, outcome |-> "ok",
   before |-> NoWorld]

IdleDraw == [pc |-> "idle", surface |-> 0]

RaceIdle == ctl = IdleControl /\ draw = IdleDraw
OGLIdle ==
  android = [g_platformInitialized |-> FALSE, g_framework |-> FALSE,
             g_factory |-> 0, g_drapeEngineCreated |-> FALSE,
             g_surfaceWidth |-> 0, g_surfaceHeight |-> 0,
             f |-> NoOGLFactory, engine |-> NoEngine,
             thread |-> [t \in GLThreads |-> "idle"],
             lastCall |-> "none"]

\* The frame notifier before any frame: g_lastFrameNotification is the
\* zero-initialised time point, the single-flight flag is clear, no callback
\* is registered.  The steady clock already reads one interval.
NotifyIdle ==
  notifier = [clock |-> kMinFrameInterval,
              g_lastFrameNotification |-> 0,
              g_frameNotificationPending |-> FALSE,
              g_frameReadyCallback |-> FALSE,
              thread |-> [t \in NotifierThreads |->
                            [pc |-> "idle", now |-> 0, result |-> "none"]],
              delivery |-> [count |-> 0, last |-> 0, prev |-> 0]]

\* The plugin after construction (agus_maps_flutter_plugin.h member
\* initialisers); no duplicate handle is open, no request has been made.
\* descriptor is what the compositor's last request returned, NoDescriptor
\* for nullptr and once anything else has happened since; request says how
\* that request ended and retried whether the request before it failed at
\* DuplicateHandle.
NoDescriptor == [handle |-> 0, width |-> 0, height |-> 0, format |-> "none"]

PluginIdle ==
  plugin = [surface_width_ |-> 0, surface_height_ |-> 0,
            texture_ |-> FALSE, texture_id_ |-> -1,
            descriptor |-> NoDescriptor,
            duplicates |-> {}, outstanding |-> {},
            request |-> "none", retried |-> FALSE]

InitIdle ==
  /\ rendezvous = [m_isInitialized |-> FALSE, m_initializationCounter |-> 0,
                   m_initializationMutex |-> "free", entered |-> 0,
                   returned |-> 0]
  /\ waiter = [t \in GLThreads |-> [pc |-> "idle", calls |-> 0]]

GuiIdle ==
  gui = [m_running |-> TRUE, m_taskQueue |-> <<>>, m_mutex |-> "free",
         worker |-> [pc |-> "loop", task |-> 0],
         pusher |-> [p \in Pushers |->
                       [pc |-> "idle", task |-> 0, late |-> FALSE,
                        result |-> "none"]],
         dtor |-> "alive", pushed |-> 0,
         accepted |-> <<>>, executed |-> <<>>, running |-> {}]

\* The plugin after RegisterWithRegistrar: g_plugin_instance set, no texture
\* (texture_id_ is -1, texture_ is null, 0 here), nothing registered with
\* the registrar, no engine, the platform thread outside any call and the
\* render thread outside the frame-ready callback.  A texture object and
\* the id RegisterTexture returns for it carry the same number.
TextureIdle ==
  reg = [g_plugin_instance |-> TRUE, texture_ |-> 0, texture_id_ |-> -1,
         registered |-> {}, alive |-> {}, created |-> 0,
         engine |-> FALSE, platform |-> "idle",
         render |-> [pc |-> "idle", id |-> -1],
         markedUnregistered |-> FALSE, ranOnDestroyed |-> FALSE]

RequestIdle ==
  req = [pc |-> "idle", factory |-> 0, handle |-> 0, destroyed |-> FALSE,
         closed |-> FALSE]

FactoryIdle ==
  fut = [kind |-> "none", constructed |-> "none", w |-> NoWorld,
         f |-> NoOGLFactory, crashed |-> FALSE, calls |-> {},
         requested |-> TRUE]

\* The draw context and the upload context of a valid factory, each with
\* its surface, and no context current on either engine thread.
ContextIdle ==
  egl = [ctx |-> [draw |-> AgusAngleContext(1, AgusAngleContext(2, NullContext, 2), 1),
                  upload |-> AgusAngleContext(2, NullContext, 2)],
         current |-> [t \in GLThreads |-> 0],
         last |-> [op |-> "none", thread |-> "none", role |-> "none",
                   ret |-> "none"]]

Init == WinInit /\ RaceIdle /\ InitIdle /\ OGLIdle /\ NotifyIdle /\ PluginIdle /\ GuiIdle
  /\ ContextIdle /\ FactoryIdle /\ RequestIdle /\ TextureIdle

InitPathsStep ==
  comaps_init_paths /\ UNCHANGED <<raceVars, initVars, oglVars, sideVars>>

CreateStep ==
  /\ \E size \in Sizes :
       \E outcome \in CreateOutcomes(Width(size), Height(size)) :
         comaps_create_surface(Width(size), Height(size), outcome)
  /\ UNCHANGED <<raceVars, initVars, oglVars, sideVars>>

ResizeStep ==
  /\ \E size \in Sizes :
       \E outcome \in ResizeOutcomes(Width(size), Height(size)) :
         comaps_resize_surface(Width(size), Height(size), outcome)
  /\ UNCHANGED <<raceVars, initVars, oglVars, sideVars>>

DestroyStep ==
  comaps_destroy_surface /\ UNCHANGED <<raceVars, initVars, oglVars, sideVars>>

DrawContextStep ==
  /\ \E uploadCreated \in BOOLEAN, contextCreated \in BOOLEAN :
       EngineGetDrawContext(uploadCreated, contextCreated)
  /\ UNCHANGED <<raceVars, initVars, oglVars, sideVars>>

UploadContextStep ==
  /\ \E contextCreated \in BOOLEAN :
       EngineGetResourcesUploadContext(contextCreated)
  /\ UNCHANGED <<raceVars, initVars, oglVars, sideVars>>

Next ==
  \/ InitPathsStep
  \/ CreateStep
  \/ ResizeStep
  \/ DestroyStep
  \/ DrawContextStep
  \/ UploadContextStep

Spec == Init /\ [][Next]_vars


-----------------------------------------------------------------------------
(* AgusAngleContextFactory::WaitForInitialization, statement by statement,  *)
(* called by the upload thread and the draw thread.                        *)

\* The comparison of line 674 with a threshold of one party.
ThresholdOfOne(counter) == counter >= 1

\* A threshold no counter reaches.
ThresholdNeverReached(counter) == FALSE

\* line 674: if (m_initializationCounter >= 2)
ThresholdReached(counter) == counter >= 2

\* A test of the flag that never finds it set.
NeverInitialized(r) == FALSE

\* line 672: if (!m_isInitialized)
AlreadyInitialized(r) == r.m_isInitialized

\* A call is entered when the thread invokes WaitForInitialization; entered
\* and returned count the calls of all threads.
WfiCall(t) ==
  /\ waiter[t].pc = "idle"
  /\ waiter[t].calls < MaxWaitCalls
  /\ waiter' = [waiter EXCEPT ![t].pc = "lock", ![t].calls = @ + 1]
  /\ rendezvous' = [rendezvous EXCEPT !.entered = @ + 1]

\* line 671: std::unique_lock<std::mutex> lock(m_initializationMutex)
WfiLock(t) ==
  /\ waiter[t].pc = "lock"
  /\ rendezvous.m_initializationMutex = "free"
  /\ rendezvous' = [rendezvous EXCEPT !.m_initializationMutex = t]
  /\ waiter' = [waiter EXCEPT ![t].pc = "check"]

\* lines 672-674: the flag is tested, the counter raised and compared
WfiCount(t) ==
  /\ waiter[t].pc = "check"
  /\ IF AlreadyInitialized(rendezvous)
     THEN /\ waiter' = [waiter EXCEPT ![t].pc = "unlock"]
          /\ UNCHANGED rendezvous
     ELSE LET counter == rendezvous.m_initializationCounter + 1
          IN /\ rendezvous' =
                  [rendezvous EXCEPT !.m_initializationCounter = counter]
             /\ waiter' = [waiter EXCEPT ![t].pc =
                             IF ThresholdReached(counter)
                             THEN "release" ELSE "wait"]

\* lines 675-676: m_isInitialized = true; notify_all()
WfiRelease(t) ==
  /\ waiter[t].pc = "release"
  /\ rendezvous' = [rendezvous EXCEPT !.m_isInitialized = TRUE]
  /\ waiter' = [u \in GLThreads |->
                  IF u = t THEN [waiter[u] EXCEPT !.pc = "unlock"]
                  ELSE IF waiter[u].pc = "waiting"
                  THEN [waiter[u] EXCEPT !.pc = "notified"]
                  ELSE waiter[u]]

\* line 678: wait(lock, pred) finds the predicate false, releases the mutex
\* and blocks
WfiWait(t) ==
  /\ waiter[t].pc = "wait"
  /\ ~rendezvous.m_isInitialized
  /\ rendezvous' = [rendezvous EXCEPT !.m_initializationMutex = "free"]
  /\ waiter' = [waiter EXCEPT ![t].pc = "waiting"]

\* line 678: a waiter wakes, notified or spuriously, takes the mutex again
\* and tests the predicate; it blocks again while the predicate is false
WfiWake(t) ==
  /\ waiter[t].pc \in {"waiting", "notified"}
  /\ rendezvous.m_initializationMutex = "free"
  /\ IF rendezvous.m_isInitialized
     THEN /\ rendezvous' = [rendezvous EXCEPT !.m_initializationMutex = t]
          /\ waiter' = [waiter EXCEPT ![t].pc = "unlock"]
     ELSE /\ waiter' = [waiter EXCEPT ![t].pc = "waiting"]
          /\ UNCHANGED rendezvous

\* line 681: the lock's destructor releases the mutex and the call returns
WfiReturn(t) ==
  /\ waiter[t].pc = "unlock"
  /\ rendezvous' = [rendezvous EXCEPT !.m_initializationMutex = "free",
                                      !.returned = @ + 1]
  /\ waiter' = [waiter EXCEPT ![t].pc = "idle"]

WfiCallStep ==
  /\ \E t \in GLThreads : WfiCall(t)
  /\ UNCHANGED <<winVars, raceVars, oglVars, sideVars>>

WfiLockStep ==
  /\ \E t \in GLThreads : WfiLock(t)
  /\ UNCHANGED <<winVars, raceVars, oglVars, sideVars>>

WfiCountStep ==
  /\ \E t \in GLThreads : WfiCount(t)
  /\ UNCHANGED <<winVars, raceVars, oglVars, sideVars>>

WfiReleaseStep ==
  /\ \E t \in GLThreads : WfiRelease(t)
  /\ UNCHANGED <<winVars, raceVars, oglVars, sideVars>>

WfiWaitStep ==
  /\ \E t \in GLThreads : WfiWait(t)
  /\ UNCHANGED <<winVars, raceVars, oglVars, sideVars>>

WfiWakeStep ==
  /\ \E t \in GLThreads : WfiWake(t)
  /\ UNCHANGED <<winVars, raceVars, oglVars, sideVars>>

WfiReturnStep ==
  /\ \E t \in GLThreads : WfiReturn(t)
  /\ UNCHANGED <<winVars, raceVars, oglVars, sideVars>>

NextInit ==
  \/ WfiCallStep
  \/ WfiLockStep
  \/ WfiCountStep
  \/ WfiReleaseStep
  \/ WfiWaitStep
  \/ WfiWakeStep
  \/ WfiReturnStep

SpecInit == Init /\ [][NextInit]_vars

\* A thread that is inside WaitForInitialization and can take a step
\* eventually takes one: the operating system schedules every runnable
\* thread, and condition_variable::wait returns once it is notified and the
\* mutex is free.  Whether a thread calls at all is left to the thread.
WfiProgress(t) ==
  /\ \/ WfiLock(t) \/ WfiCount(t) \/ WfiRelease(t)
     \/ WfiWait(t) \/ WfiWake(t) \/ WfiReturn(t)
  /\ UNCHANGED <<winVars, raceVars, oglVars, sideVars>>

SpecInitFair ==
  SpecInit /\ \A t \in GLThreads : WF_vars(WfiProgress(t))

-----------------------------------------------------------------------------
(* SpecRace: comaps_resize_surface and comaps_destroy_surface statement by  *)
(* statement on the control thread, while the engine's draw thread renders *)
(* frames with the draw context (MakeCurrent, then Present).  Neither      *)
(* function takes a lock.  Framework::SetRenderingDisabled(true) is taken  *)
(* to return only when the draw thread is between frames and to keep it    *)
(* from starting another.                                                  *)

\* The state after comaps_init_paths, a successful comaps_create_surface
\* and the engine's GetDrawContext.
RaceWorld == GetDrawContext(AgusAngleContextFactory(1, 1, "ok"), TRUE, TRUE)

RaceWinInit ==
  /\ g_platformInitialized = TRUE
  /\ g_framework = TRUE
  /\ g_factory = 1
  /\ g_angleFactory = 1
  /\ g_drapeEngineCreated = TRUE
  /\ g_surfaceWidth = 1
  /\ g_surfaceHeight = 1
  /\ world = RaceWorld
  /\ engine = CreateDrapeEngine(NoEngine, 1)
  /\ lastCall = NoCall

InitRace == RaceWinInit /\ RaceIdle /\ InitIdle /\ OGLIdle /\ NotifyIdle /\ PluginIdle /\ GuiIdle
  /\ ContextIdle /\ FactoryIdle /\ RequestIdle /\ TextureIdle

\* The phases of AgusAngleContextFactory::Resize between the release of the
\* previous target and the binding of the new surface.
ResizePhases ==
  {"release_texture", "create_texture", "destroy_surface", "create_surface",
   "bind"}

\* comaps_resize_surface, lines 597-607
RaceResizeCall(width, height, outcome) ==
  /\ ctl.pc = "idle"
  /\ IF width = g_surfaceWidth /\ height = g_surfaceHeight
     THEN UNCHANGED <<ctl, g_surfaceWidth, g_surfaceHeight>>
     ELSE /\ g_surfaceWidth' = width
          /\ g_surfaceHeight' = height
          /\ ctl' = [pc |-> IF g_angleFactory # 0 THEN "resize" ELSE "onsize",
                     width |-> width, height |-> height,
                     outcome |-> outcome, before |-> world]
  /\ UNCHANGED <<world, engine, draw, g_factory, g_angleFactory,
                 g_drapeEngineCreated>>

\* Resize, lines 692-700
RaceResizeEnter ==
  /\ ctl.pc = "resize"
  /\ IF ResizeIsNoOp(world, ctl.width, ctl.height)
     THEN ctl' = [ctl EXCEPT !.pc = "onsize"] /\ UNCHANGED world
     ELSE /\ world' = SetSize(world, ctl.width, ctl.height)
          /\ ctl' = [ctl EXCEPT !.pc = "release_texture"]
  /\ UNCHANGED <<engine, draw, g_factory, g_angleFactory,
                 g_drapeEngineCreated, g_surfaceWidth, g_surfaceHeight>>

\* CreateSharedTexture, lines 509-514
RaceReleaseTexture ==
  /\ ctl.pc = "release_texture"
  /\ world' = ReleaseSharedTexture(world)
  /\ ctl' = [ctl EXCEPT !.pc = "create_texture"]
  /\ UNCHANGED <<engine, draw, g_factory, g_angleFactory,
                 g_drapeEngineCreated, g_surfaceWidth, g_surfaceHeight>>

\* CreateSharedTexture, lines 516-556, and Resize, lines 703-706
RaceCreateTexture ==
  /\ ctl.pc = "create_texture"
  /\ LET tex == AllocateSharedTexture(world, ctl.before, ctl.width,
                                      ctl.height, ctl.outcome)
     IN /\ world' = tex.w
        /\ ctl' = [ctl EXCEPT !.pc = IF tex.ok THEN "destroy_surface"
                                     ELSE "onsize"]
  /\ UNCHANGED <<engine, draw, g_factory, g_angleFactory,
                 g_drapeEngineCreated, g_surfaceWidth, g_surfaceHeight>>

\* CreatePbufferSurface, lines 563-567
RaceDestroySurface ==
  /\ ctl.pc = "destroy_surface"
  /\ world' = DestroyPbufferSurface(world)
  /\ ctl' = [ctl EXCEPT !.pc = "create_surface"]
  /\ UNCHANGED <<engine, draw, g_factory, g_angleFactory,
                 g_drapeEngineCreated, g_surfaceWidth, g_surfaceHeight>>

\* CreatePbufferSurface, lines 569-622, and Resize, lines 708-711
RaceCreateSurface ==
  /\ ctl.pc = "create_surface"
  /\ LET surf == AllocatePbufferSurface(world, ctl.before, ctl.outcome)
     IN /\ world' = surf.w
        /\ ctl' = [ctl EXCEPT !.pc = IF surf.ok THEN "bind" ELSE "onsize"]
  /\ UNCHANGED <<engine, draw, g_factory, g_angleFactory,
                 g_drapeEngineCreated, g_surfaceWidth, g_surfaceHeight>>

\* Resize, lines 713-716
RaceBind ==
  /\ ctl.pc = "bind"
  /\ world' = RebindDrawContext(world)
  /\ ctl' = [ctl EXCEPT !.pc = "onsize"]
  /\ UNCHANGED <<engine, draw, g_factory, g_angleFactory,
                 g_drapeEngineCreated, g_surfaceWidth, g_surfaceHeight>>

\* comaps_resize_surface, lines 612-614: Framework::OnSize, and the return
RaceOnSize ==
  /\ ctl.pc = "onsize"
  /\ ctl' = IdleControl
  /\ UNCHANGED <<world, engine, draw, g_factory, g_angleFactory,
                 g_drapeEngineCreated, g_surfaceWidth, g_surfaceHeight>>

\* comaps_destroy_surface, lines 621-623
RaceDisableRendering ==
  /\ ctl.pc = "idle"
  /\ IF g_framework /\ g_drapeEngineCreated
     THEN draw.pc = "idle" /\ engine' = SetRenderingDisabled(engine)
     ELSE UNCHANGED engine
  /\ ctl' = [IdleControl EXCEPT !.pc = "reset"]
  /\ UNCHANGED <<world, draw, g_factory, g_angleFactory,
                 g_drapeEngineCreated, g_surfaceWidth, g_surfaceHeight>>

\* comaps_destroy_surface, lines 625-627
RaceReset ==
  /\ ctl.pc = "reset"
  /\ world' = DestroyFactory(world)
  /\ g_factory' = 0
  /\ g_angleFactory' = 0
  /\ g_drapeEngineCreated' = FALSE
  /\ ctl' = IdleControl
  /\ UNCHANGED <<engine, draw, g_surfaceWidth, g_surfaceHeight>>

\* AgusAngleContext::MakeCurrent on the draw thread: eglMakeCurrent is
\* called with m_surface unless that is EGL_NO_SURFACE.
DrawMakeCurrent ==
  /\ draw.pc = "idle"
  /\ ~engine.renderingDisabled
  /\ engine.factory # 0 /\ engine.factory = g_factory
  /\ world.f.m_drawContext.exists
  /\ draw' = [pc |-> "current", surface |-> world.f.m_drawContext.m_surface]
  /\ UNCHANGED <<world, engine, ctl, g_factory, g_angleFactory,
                 g_drapeEngineCreated, g_surfaceWidth, g_surfaceHeight>>

\* AgusAngleContext::Present, line 163: glFinish is entered when present is
\* available and m_surface is a surface
DrawPresent ==
  /\ draw.pc = "current"
  /\ draw' = IF /\ world.f.m_drawContext.m_presentAvailable
                /\ world.f.m_drawContext.m_surface # 0
             THEN [draw EXCEPT !.pc = "present"]
             ELSE IdleDraw
  /\ UNCHANGED <<world, engine, ctl, g_factory, g_angleFactory,
                 g_drapeEngineCreated, g_surfaceWidth, g_surfaceHeight>>

\* AgusAngleContext::Present: glFinish returns
DrawPresented ==
  /\ draw.pc = "present"
  /\ draw' = IdleDraw
  /\ UNCHANGED <<world, engine, ctl, g_factory, g_angleFactory,
                 g_drapeEngineCreated, g_surfaceWidth, g_surfaceHeight>>

RaceFrame == <<g_platformInitialized, g_framework, lastCall, initVars, oglVars, sideVars>>

RaceResizeCallStep ==
  /\ \E size \in Sizes :
       \E outcome \in ResizeOutcomes(Width(size), Height(size)) :
         RaceResizeCall(Width(size), Height(size), outcome)
  /\ UNCHANGED RaceFrame

RaceResizeEnterStep == RaceResizeEnter /\ UNCHANGED RaceFrame
RaceReleaseTextureStep == RaceReleaseTexture /\ UNCHANGED RaceFrame
RaceCreateTextureStep == RaceCreateTexture /\ UNCHANGED RaceFrame
RaceDestroySurfaceStep == RaceDestroySurface /\ UNCHANGED RaceFrame
RaceCreateSurfaceStep == RaceCreateSurface /\ UNCHANGED RaceFrame
RaceBindStep == RaceBind /\ UNCHANGED RaceFrame
RaceOnSizeStep == RaceOnSize /\ UNCHANGED RaceFrame
RaceDisableRenderingStep == RaceDisableRendering /\ UNCHANGED RaceFrame
RaceResetStep == RaceReset /\ UNCHANGED RaceFrame
DrawMakeCurrentStep == DrawMakeCurrent /\ UNCHANGED RaceFrame
DrawPresentStep == DrawPresent /\ UNCHANGED RaceFrame
DrawPresentedStep == DrawPresented /\ UNCHANGED RaceFrame

NextRace ==
  \/ RaceResizeCallStep
  \/ RaceResizeEnterStep
  \/ RaceReleaseTextureStep
  \/ RaceCreateTextureStep
  \/ RaceDestroySurfaceStep
  \/ RaceCreateSurfaceStep
  \/ RaceBindStep
  \/ RaceOnSizeStep
  \/ RaceDisableRenderingStep
  \/ RaceResetStep
  \/ DrawMakeCurrentStep
  \/ DrawPresentStep
  \/ DrawPresentedStep

SpecRace == InitRace /\ [][NextRace]_vars

-----------------------------------------------------------------------------
(* SpecOGL                                                                  *)

AndroidInitPathsStep ==
  android_comaps_init_paths /\ UNCHANGED <<winVars, raceVars, initVars, sideVars>>

SetSurfaceStep ==
  /\ \E window \in BOOLEAN, size \in Sizes :
       \E outcome \in OGLFailures \cup {"ok"} :
         nativeSetSurface(window, Width(size), Height(size), outcome)
  /\ UNCHANGED <<winVars, raceVars, initVars, sideVars>>

SurfaceChangedStep ==
  /\ \E size \in Sizes :
       nativeOnSurfaceChanged(Width(size), Height(size))
  /\ UNCHANGED <<winVars, raceVars, initVars, sideVars>>

SurfaceDestroyedStep ==
  nativeOnSurfaceDestroyed /\ UNCHANGED <<winVars, raceVars, initVars, sideVars>>

SizeChangedStep ==
  /\ \E size \in Sizes :
       nativeOnSizeChanged(Width(size), Height(size))
  /\ UNCHANGED <<winVars, raceVars, initVars, sideVars>>

OGLConstructStep ==
  /\ \E t \in GLThreads, contextCreated \in BOOLEAN :
       OGLConstruct(t, contextCreated)
  /\ UNCHANGED <<winVars, raceVars, initVars, sideVars>>

OGLWaitStep ==
  /\ \E t \in GLThreads : OGLWaitForInitialization(t)
  /\ UNCHANGED <<winVars, raceVars, initVars, sideVars>>

NextOGL ==
  \/ AndroidInitPathsStep
  \/ SetSurfaceStep
  \/ SurfaceChangedStep
  \/ SurfaceDestroyedStep
  \/ SizeChangedStep
  \/ OGLConstructStep
  \/ OGLWaitStep

SpecOGL == Init /\ [][NextOGL]_vars

-----------------------------------------------------------------------------
(* SpecNotify: notifyFlutterFrameReady taken statement by statement on      *)
(* each calling thread.  A thread is at "check" after sampling the clock,   *)
(* at "exchange" after passing the rate limit, at "stamp" after winning the *)
(* exchange, at "call" after storing the time, at "callback" while the      *)
(* registered callback runs, at "clear" after it returned.  A thread at     *)
(* "unwound" has left the notifier by an exception.                         *)

\* std::atomic<bool>::compare_exchange_strong(expected, true) succeeds when
\* the flag holds the expected value.
ExchangeAlwaysSucceeds(value, expected) == TRUE

compare_exchange_strong(value, expected) == value = expected

\* The handlers of the try block: catch (const std::exception&) and
\* catch (...).
CatchesStdExceptionOnly(outcome) == outcome = "std::exception"

Catches(outcome) == outcome \in {"std::exception", "other exception"}

NotifierReturn(t, result) ==
  [notifier EXCEPT !.thread[t] = [pc |-> "idle", now |-> 0, result |-> result]]

NotifyTickStep ==
  /\ notifier.clock + TickMs <= MaxClock
  /\ notifier' = [notifier EXCEPT !.clock = @ + TickMs]
  /\ UNCHANGED <<coreVars, plugin, classVars>>

\* comaps_set_frame_callback
SetFrameCallbackStep ==
  /\ \E callback \in BOOLEAN :
       notifier' = [notifier EXCEPT !.g_frameReadyCallback = callback]
  /\ UNCHANGED <<coreVars, plugin, classVars>>

\* auto now = std::chrono::steady_clock::now();
NotifyEnterStep ==
  /\ \E t \in NotifierThreads :
       /\ notifier.thread[t].pc = "idle"
       /\ notifier' = [notifier EXCEPT
                         !.thread[t] = [pc |-> "check", now |-> notifier.clock,
                                        result |-> "none"]]
  /\ UNCHANGED <<coreVars, plugin, classVars>>

\* if (now - g_lastFrameNotification < kMinFrameInterval) return;
NotifyCheckStep ==
  /\ \E t \in NotifierThreads :
       /\ notifier.thread[t].pc = "check"
       /\ notifier' =
            IF notifier.thread[t].now - notifier.g_lastFrameNotification
                 < kMinFrameInterval
            THEN NotifierReturn(t, "rate limited")
            ELSE [notifier EXCEPT !.thread[t].pc = "exchange"]
  /\ UNCHANGED <<coreVars, plugin, classVars>>

\* if (!g_frameNotificationPending.compare_exchange_strong(expected, true))
\*   return;
NotifyExchange(t) ==
  /\ notifier.thread[t].pc = "exchange"
  /\ notifier' =
       IF compare_exchange_strong(notifier.g_frameNotificationPending, FALSE)
       THEN [notifier EXCEPT !.g_frameNotificationPending = TRUE,
                             !.thread[t].pc = "stamp"]
       ELSE NotifierReturn(t, "pending")

NotifyExchangeStep ==
  /\ \E t \in NotifierThreads : NotifyExchange(t)
  /\ UNCHANGED <<coreVars, plugin, classVars>>

\* g_lastFrameNotification = now;
NotifyStampStep ==
  /\ \E t \in NotifierThreads :
       /\ notifier.thread[t].pc = "stamp"
       /\ notifier' = [notifier EXCEPT
                         !.g_lastFrameNotification = notifier.thread[t].now,
                         !.thread[t].pc = "call"]
  /\ UNCHANGED <<coreVars, plugin, classVars>>

\* if (g_frameReadyCallback) g_frameReadyCallback();  The delivery is
\* recorded with the time the notifier sampled for it.
NotifyCallStep ==
  /\ \E t \in NotifierThreads :
       /\ notifier.thread[t].pc = "call"
       /\ notifier' =
            IF notifier.g_frameReadyCallback
            THEN [notifier EXCEPT
                    !.thread[t].pc = "callback",
                    !.delivery = [count |-> IF @.count < 2 THEN @.count + 1
                                            ELSE 2,
                                  last |-> notifier.thread[t].now,
                                  prev |-> @.last]]
            ELSE [notifier EXCEPT !.thread[t].pc = "clear"]
  /\ UNCHANGED <<coreVars, plugin, classVars>>

\* The callback returns or throws; a throw leaves the try block through one
\* of its handlers, which log and fall off the end of the function.
NotifyCallbackEndStep ==
  /\ \E t \in NotifierThreads, outcome \in CallbackOutcomes :
       /\ notifier.thread[t].pc = "callback"
       /\ notifier' =
            IF outcome = "returns"
            THEN [notifier EXCEPT !.thread[t].pc = "clear"]
            ELSE IF Catches(outcome)
                 THEN NotifierReturn(t, "caught")
                 ELSE [notifier EXCEPT !.thread[t].pc = "unwound",
                                       !.thread[t].result = "propagated"]
  /\ UNCHANGED <<coreVars, plugin, classVars>>

\* g_frameNotificationPending.store(false);
NotifyClearStep ==
  /\ \E t \in NotifierThreads :
       /\ notifier.thread[t].pc = "clear"
       /\ notifier' =
            [NotifierReturn(t, "returned") EXCEPT
               !.g_frameNotificationPending = FALSE]
  /\ UNCHANGED <<coreVars, plugin, classVars>>

NextNotify ==
  \/ NotifyTickStep
  \/ SetFrameCallbackStep
  \/ NotifyEnterStep
  \/ NotifyCheckStep
  \/ NotifyExchangeStep
  \/ NotifyStampStep
  \/ NotifyCallStep
  \/ NotifyCallbackEndStep
  \/ NotifyClearStep

SpecNotify == Init /\ [][NextNotify]_vars

-----------------------------------------------------------------------------
(* SpecPlugin: the Windows plugin (windows/agus_maps_flutter_plugin.cpp)    *)
(* driving the surface calls, and the compositor requesting frame           *)
(* descriptors through the obtain-descriptor callback and releasing them.   *)

\* comaps_get_shared_handle
SharedHandleAlways == Fresh({})

comaps_get_shared_handle ==
  IF g_angleFactory # 0 THEN world.f.m_sharedHandle ELSE 0

\* The format CreateSharedTexture gives the texture.
SharedTextureFormat == "DXGI_FORMAT_R8G8B8A8_UNORM"

\* DuplicateHandle: the new handle, or 0 when the call fails.  A new handle
\* differs from every handle that is open.
DuplicateSameValue(open, ok) == IF ok THEN Fresh({}) ELSE 0

DuplicateHandle(open, ok) == IF ok THEN Fresh(open) ELSE 0

\* if (!ok || !duplicated)
DuplicateNeverFailed(ok, duplicated) == FALSE

DuplicateFailed(ok, duplicated) == ~ok \/ duplicated = 0

\* The obtain-descriptor callback of CreateSurface: raw_handle is what
\* comaps_get_shared_handle returned, ok the result of DuplicateHandle.
ObtainDescriptor(p, raw_handle, ok) ==
  LET duplicated == DuplicateHandle(p.duplicates, ok)
      asked == [p EXCEPT !.retried = p.request = "duplicate failed",
                         !.descriptor = NoDescriptor]
  IN IF raw_handle = 0
     THEN [asked EXCEPT !.request = "null handle"]
     ELSE IF DuplicateFailed(ok, duplicated)
          THEN [asked EXCEPT !.request = "duplicate failed"]
          ELSE [asked EXCEPT
                  !.request = "descriptor",
                  !.duplicates = @ \cup {duplicated},
                  !.outstanding = @ \cup {duplicated},
                  !.descriptor =
                     [handle |-> duplicated,
                      width |-> p.surface_width_,
                      height |-> p.surface_height_,
                      format |-> "kFlutterDesktopPixelFormatBGRA8888"]]

\* The release callback of a descriptor, called with its release context.
ReleaseDescriptor(p, ctx) ==
  [p EXCEPT !.duplicates = @ \ {ctx}, !.outstanding = @ \ {ctx},
            !.descriptor = NoDescriptor,
            !.request = "released", !.retried = FALSE]

\* The sizes the Dart side passes: the smallest and the largest surface and
\* one without extent.
PluginSizes == {<<1, 1>>, <<MaxWidth, MaxHeight>>, <<0, 1>>}

\* AgusMapsFlutterPlugin::CreateSurface
PluginCreateSurfaceStep ==
  /\ \E size \in PluginSizes :
       \E outcome \in CreateOutcomes(Width(size), Height(size)) :
         /\ comaps_create_surface(Width(size), Height(size), outcome)
         /\ plugin' = [plugin EXCEPT
                         !.surface_width_ = Width(size),
                         !.surface_height_ = Height(size),
                         !.texture_ = IF lastCall'.ret = 0 THEN TRUE ELSE @,
                         !.texture_id_ = IF lastCall'.ret = 0 THEN 0 ELSE @,
                         !.descriptor = NoDescriptor,
                         !.request = "none", !.retried = FALSE]
  /\ UNCHANGED <<raceVars, initVars, oglVars, notifier, classVars>>

\* HandleMethodCall, "resizeSurface"
PluginResizeSurfaceStep ==
  /\ \E size \in PluginSizes :
       \E outcome \in ResizeOutcomes(Width(size), Height(size)) :
         comaps_resize_surface(Width(size), Height(size), outcome)
  /\ plugin' = [plugin EXCEPT !.descriptor = NoDescriptor,
                         !.request = "none", !.retried = FALSE]
  /\ UNCHANGED <<raceVars, initVars, oglVars, notifier, classVars>>

\* HandleMethodCall, "destroySurface"
PluginDestroySurfaceStep ==
  /\ comaps_destroy_surface
  /\ plugin' = [plugin EXCEPT !.texture_id_ = -1,
                              !.descriptor = NoDescriptor,
                         !.request = "none", !.retried = FALSE]
  /\ UNCHANGED <<raceVars, initVars, oglVars, notifier, classVars>>

\* The compositor asks the texture for a descriptor.
ObtainDescriptorStep ==
  /\ plugin.texture_
  /\ \E ok \in BOOLEAN :
       /\ ok => /\ comaps_get_shared_handle \in world.handles
                /\ Cardinality(plugin.duplicates) < MaxDuplicates
       /\ plugin' = ObtainDescriptor(plugin, comaps_get_shared_handle, ok)
  /\ lastCall' = NoCall
  /\ UNCHANGED <<g_platformInitialized, g_framework, g_factory, g_angleFactory, g_drapeEngineCreated, g_surfaceWidth, g_surfaceHeight, world, engine>>
  /\ UNCHANGED <<raceVars, initVars, oglVars, notifier, classVars>>

\* The compositor is done with a descriptor.
ReleaseDescriptorStep ==
  /\ \E ctx \in plugin.outstanding :
       plugin' = ReleaseDescriptor(plugin, ctx)
  /\ lastCall' = NoCall
  /\ UNCHANGED <<g_platformInitialized, g_framework, g_factory, g_angleFactory, g_drapeEngineCreated, g_surfaceWidth, g_surfaceHeight, world, engine>>
  /\ UNCHANGED <<raceVars, initVars, oglVars, notifier, classVars>>

NextPlugin ==
  \/ InitPathsStep
  \/ PluginCreateSurfaceStep
  \/ PluginResizeSurfaceStep
  \/ PluginDestroySurfaceStep
  \/ ObtainDescriptorStep
  \/ ReleaseDescriptorStep

SpecPlugin == Init /\ [][NextPlugin]_vars

-----------------------------------------------------------------------------
(* AgusGuiThreadWin (agus_gui_thread_win.cpp): a queue of tasks, the worker *)
(* thread that runs them, the threads that push and the thread that        *)
(* destroys the object.  A task is the number of the Push call that        *)
(* brought it.  The model ends where the destructor's join returns; the    *)
(* callers make no Push on an object whose destructor has returned.  A     *)
(* task ends by returning or by throwing a std::exception.                 *)

\* The task at the far end of the queue.
TakeNewest(queue) == queue[Len(queue)]

\* line 47: m_taskQueue.front()
TakeTask(queue) == Head(queue)

\* line 48: m_taskQueue.pop()
PopTask(queue) == Tail(queue)

\* line 40: the predicate of the worker's wait
WaitPredicate(g) == g.m_taskQueue # <<>> \/ ~g.m_running

\* notify_one / notify_all with the worker as the only thread that waits:
\* a worker blocked in the wait is woken, any other is not affected.
NotifyWorker(worker) ==
  IF worker.pc = "blocked" THEN [worker EXCEPT !.pc = "notified"] ELSE worker

\* line 36: while (m_running)
WorkerLoop ==
  /\ gui.worker.pc = "loop"
  /\ gui' = [gui EXCEPT !.worker.pc =
                          IF gui.m_running THEN "lock" ELSE "exited"]

\* line 39: std::unique_lock<std::mutex> lock(m_mutex)
WorkerLock ==
  /\ gui.worker.pc = "lock"
  /\ gui.m_mutex = "free"
  /\ gui' = [gui EXCEPT !.m_mutex = "worker", !.worker.pc = "predicate"]

\* line 40: the predicate is evaluated with the mutex held
WorkerPredicate ==
  /\ gui.worker.pc = "predicate"
  /\ gui' = [gui EXCEPT !.worker.pc =
                          IF WaitPredicate(gui) THEN "check" ELSE "block"]

\* line 40: the wait releases the mutex and blocks
WorkerBlock ==
  /\ gui.worker.pc = "block"
  /\ gui' = [gui EXCEPT !.m_mutex = "free", !.worker.pc = "blocked"]

\* line 40: a notified wait takes the mutex again
WorkerWake ==
  /\ gui.worker.pc = "notified"
  /\ gui.m_mutex = "free"
  /\ gui' = [gui EXCEPT !.m_mutex = "worker", !.worker.pc = "predicate"]

\* line 40: a wait may return without a notification
WorkerSpuriousWake ==
  /\ gui.worker.pc = "blocked"
  /\ gui.m_mutex = "free"
  /\ gui' = [gui EXCEPT !.m_mutex = "worker", !.worker.pc = "predicate"]

\* lines 42-50: leave the loop, or take the task at the front
WorkerCheck ==
  /\ gui.worker.pc = "check"
  /\ IF ~gui.m_running /\ gui.m_taskQueue = <<>>
     THEN gui' = [gui EXCEPT !.m_mutex = "free", !.worker.pc = "exited"]
     ELSE IF gui.m_taskQueue # <<>>
     THEN gui' = [gui EXCEPT !.m_mutex = "free",
                             !.worker = [pc |-> "run",
                                         task |-> TakeTask(gui.m_taskQueue)],
                             !.m_taskQueue = PopTask(gui.m_taskQueue)]
     ELSE gui' = [gui EXCEPT !.m_mutex = "free",
                             !.worker = [pc |-> "run", task |-> 0]]

\* lines 52-54: if (task) task()
WorkerRun ==
  /\ gui.worker.pc = "run"
  /\ IF gui.worker.task # 0
     THEN gui' = [gui EXCEPT !.worker.pc = "running",
                             !.executed = Append(@, gui.worker.task),
                             !.running = @ \cup {gui.worker.task}]
     ELSE gui' = [gui EXCEPT !.worker.pc = "loop"]

\* lines 54-58: the task returns, or throws a std::exception that is caught
WorkerTaskEnd(outcome) ==
  /\ gui.worker.pc = "running"
  /\ gui' = [gui EXCEPT !.worker = [pc |-> "loop", task |-> 0],
                        !.running = @ \ {gui.worker.task}]

\* line 67: if (!m_running) return {false, false}
PushCall(p) ==
  /\ gui.pusher[p].pc = "idle"
  /\ gui.pushed < MaxPushes
  /\ gui.dtor # "joined"
  /\ gui' = [gui EXCEPT
       !.pushed = @ + 1,
       !.pusher[p] =
         IF ~gui.m_running
         THEN [pc |-> "idle", task |-> gui.pushed + 1, late |-> TRUE,
               result |-> "refused"]
         ELSE [pc |-> "lock", task |-> gui.pushed + 1, late |-> FALSE,
               result |-> "none"]]

\* line 73: std::lock_guard<std::mutex> lock(m_mutex)
PushLock(p) ==
  /\ gui.pusher[p].pc = "lock"
  /\ gui.m_mutex = "free"
  /\ gui' = [gui EXCEPT !.m_mutex = p, !.pusher[p].pc = "push"]

\* lines 74-75: m_taskQueue.push(std::move(task)), and the lock ends
PushEnqueue(p) ==
  /\ gui.pusher[p].pc = "push"
  /\ gui' = [gui EXCEPT !.m_taskQueue = Append(@, gui.pusher[p].task),
                        !.accepted = Append(@, gui.pusher[p].task),
                        !.m_mutex = "free",
                        !.pusher[p].pc = "notify"]

\* lines 76-78: m_cv.notify_one(); return {true, false}
PushNotify(p) ==
  /\ gui.pusher[p].pc = "notify"
  /\ gui' = [gui EXCEPT !.worker = NotifyWorker(gui.worker),
                        !.pusher[p].pc = "idle",
                        !.pusher[p].result = "accepted"]

\* line 22: m_running = false
DtorStore ==
  /\ gui.dtor = "alive"
  /\ gui' = [gui EXCEPT !.m_running = FALSE, !.dtor = "notify"]

\* line 23: m_cv.notify_all()
DtorNotify ==
  /\ gui.dtor = "notify"
  /\ gui' = [gui EXCEPT !.worker = NotifyWorker(gui.worker),
                        !.dtor = "join"]

\* lines 25-27: m_thread.join()
DtorJoin ==
  /\ gui.dtor = "join"
  /\ gui.worker.pc = "exited"
  /\ gui' = [gui EXCEPT !.dtor = "joined"]

GuiFrame == <<coreVars, notifier, plugin, egl, fut, req, reg>>

WorkerLoopStep == WorkerLoop /\ UNCHANGED GuiFrame
WorkerLockStep == WorkerLock /\ UNCHANGED GuiFrame
WorkerPredicateStep == WorkerPredicate /\ UNCHANGED GuiFrame
WorkerBlockStep == WorkerBlock /\ UNCHANGED GuiFrame
WorkerWakeStep == WorkerWake /\ UNCHANGED GuiFrame
WorkerSpuriousWakeStep == WorkerSpuriousWake /\ UNCHANGED GuiFrame
WorkerCheckStep == WorkerCheck /\ UNCHANGED GuiFrame
WorkerRunStep == WorkerRun /\ UNCHANGED GuiFrame
WorkerTaskEndStep ==
  (\E outcome \in TaskOutcomes : WorkerTaskEnd(outcome)) /\ UNCHANGED GuiFrame
PushCallStep == (\E p \in Pushers : PushCall(p)) /\ UNCHANGED GuiFrame
PushLockStep == (\E p \in Pushers : PushLock(p)) /\ UNCHANGED GuiFrame
PushEnqueueStep == (\E p \in Pushers : PushEnqueue(p)) /\ UNCHANGED GuiFrame
PushNotifyStep == (\E p \in Pushers : PushNotify(p)) /\ UNCHANGED GuiFrame
DtorStoreStep == DtorStore /\ UNCHANGED GuiFrame
DtorNotifyStep == DtorNotify /\ UNCHANGED GuiFrame
DtorJoinStep == DtorJoin /\ UNCHANGED GuiFrame

NextGui ==
  \/ WorkerLoopStep
  \/ WorkerLockStep
  \/ WorkerPredicateStep
  \/ WorkerBlockStep
  \/ WorkerWakeStep
  \/ WorkerSpuriousWakeStep
  \/ WorkerCheckStep
  \/ WorkerRunStep
  \/ WorkerTaskEndStep
  \/ PushCallStep
  \/ PushLockStep
  \/ PushEnqueueStep
  \/ PushNotifyStep
  \/ DtorStoreStep
  \/ DtorNotifyStep
  \/ DtorJoinStep

SpecGui == Init /\ [][NextGui]_vars

\* The operating system runs every thread that can take a step: the worker
\* inside ThreadFunc, a thread inside Push, the thread inside the
\* destructor.  A task that was started ends.  Nothing obliges a thread to
\* call Push or the destructor, and nothing obliges a blocked wait to
\* return without a notification.
WorkerProgress ==
  /\ \/ WorkerLoop \/ WorkerLock \/ WorkerPredicate \/ WorkerBlock
     \/ WorkerWake \/ WorkerCheck \/ WorkerRun
     \/ \E outcome \in TaskOutcomes : WorkerTaskEnd(outcome)
  /\ UNCHANGED GuiFrame

PushProgress(p) ==
  /\ \/ PushLock(p) \/ PushEnqueue(p) \/ PushNotify(p)
  /\ UNCHANGED GuiFrame

DtorProgress ==
  /\ \/ DtorNotify \/ DtorJoin
  /\ UNCHANGED GuiFrame

SpecGuiFair ==
  /\ SpecGui
  /\ WF_vars(WorkerProgress)
  /\ \A p \in Pushers : WF_vars(PushProgress(p))
  /\ WF_vars(DtorProgress)

-----------------------------------------------------------------------------
(* One context factory taken by itself: it is constructed once, with any   *)
(* outcome of its native calls, and then receives the calls of its public  *)
(* interface in any order, whether or not it reports itself valid.         *)

\* The construction outcomes in which the platform was not initialized.
PlatformInitFailed(outcome) ==
  outcome \in PlatformFailures \cup {"eglGetDisplay", "eglInitialize"}

\* On a display that was not obtained or not initialized every EGL call
\* fails; otherwise a call may fail or succeed.
FactoryResizeOutcomes(constructed) ==
  TextureFailures \cup SurfaceFailures
    \cup (IF PlatformInitFailed(constructed) THEN {} ELSE {"ok"})

SetSurfaceOutcomes(constructed) ==
  IF PlatformInitFailed(constructed)
  THEN {"eglChooseConfig"}
  ELSE {"eglChooseConfig", "eglCreateWindowSurface", "ok"}

ContextOutcomes(constructed) ==
  IF PlatformInitFailed(constructed) THEN {FALSE} ELSE BOOLEAN

FactorySizes == {<<1, 1>>, <<MaxWidth, MaxHeight>>}

FactoryConstructAngle ==
  /\ fut.kind = "none"
  /\ \E size \in FactorySizes :
     \E outcome \in PlatformFailures \cup TextureFailures
                      \cup SurfaceFailures \cup {"ok"} :
       fut' = [fut EXCEPT
                 !.kind = "AgusAngleContextFactory",
                 !.constructed = outcome,
                 !.w = AgusAngleContextFactory(Width(size), Height(size),
                                               outcome)]

\* Resize on a factory without a D3D device reaches
\* m_d3dDevice->CreateTexture2D (line 530) through a null ComPtr: the
\* process ends there.
FactoryResize ==
  /\ fut.kind = "AgusAngleContextFactory"
  /\ ~fut.crashed
  /\ \E size \in FactorySizes :
     \E outcome \in FactoryResizeOutcomes(fut.constructed) :
       IF /\ fut.constructed = "D3D11CreateDevice"
          /\ ~ResizeIsNoOp(fut.w, Width(size), Height(size))
       THEN fut' = [fut EXCEPT !.crashed = TRUE, !.calls = @ \cup {"Resize"}]
       ELSE fut' = [fut EXCEPT
                      !.w = Resize(fut.w, Width(size), Height(size), outcome),
                      !.calls = @ \cup {"Resize"}]

FactoryGetDrawContext ==
  /\ fut.kind = "AgusAngleContextFactory"
  /\ ~fut.crashed
  /\ \E uploadCreated, contextCreated \in ContextOutcomes(fut.constructed) :
       fut' = [fut EXCEPT
                 !.w = GetDrawContext(fut.w, uploadCreated, contextCreated),
                 !.calls = @ \cup {"GetDrawContext"}]

FactoryGetResourcesUploadContext ==
  /\ fut.kind = "AgusAngleContextFactory"
  /\ ~fut.crashed
  /\ \E contextCreated \in ContextOutcomes(fut.constructed) :
       fut' = [fut EXCEPT
                 !.w = GetResourcesUploadContext(fut.w, contextCreated),
                 !.calls = @ \cup {"GetResourcesUploadContext"}]

FactoryConstructOGL ==
  /\ fut.kind = "none"
  /\ \E outcome \in OGLFailures \cup {"ok"} :
       fut' = [fut EXCEPT !.kind = "AgusOGLContextFactory",
                          !.constructed = outcome,
                          !.f = AgusOGLContextFactory(TRUE, outcome)]

FactorySetSurface ==
  /\ fut.kind = "AgusOGLContextFactory"
  /\ \E outcome \in SetSurfaceOutcomes(fut.constructed) :
       fut' = [fut EXCEPT !.f = OGLSetSurface(fut.f, TRUE, outcome),
                          !.calls = @ \cup {"SetSurface"}]

FactoryOGLGetDrawContext ==
  /\ fut.kind = "AgusOGLContextFactory"
  /\ \E contextCreated \in ContextOutcomes(fut.constructed) :
       fut' = [fut EXCEPT !.f = OGLGetDrawContext(fut.f, contextCreated),
                          !.calls = @ \cup {"GetDrawContext"}]

FactoryOGLGetResourcesUploadContext ==
  /\ fut.kind = "AgusOGLContextFactory"
  /\ \E contextCreated \in ContextOutcomes(fut.constructed) :
       fut' = [fut EXCEPT
                 !.f = OGLGetResourcesUploadContext(fut.f, contextCreated),
                 !.calls = @ \cup {"GetResourcesUploadContext"}]

\* AgusOGLContextFactory::SetPresentAvailable
OGLSetPresentAvailable(f, available) ==
  IF f.m_drawContext.exists
  THEN [f EXCEPT !.m_drawContext =
                   ContextSetPresentAvailable(f.m_drawContext, available)]
  ELSE f

\* SetPresentAvailable of either factory; requested is the availability
\* asked for last (a context is constructed with true).
FactorySetPresentAvailable ==
  /\ fut.kind # "none"
  /\ ~fut.crashed
  /\ \E available \in BOOLEAN :
       fut' = [fut EXCEPT
                 !.w = IF fut.kind = "AgusAngleContextFactory"
                       THEN SetPresentAvailable(fut.w, available) ELSE @,
                 !.f = IF fut.kind = "AgusOGLContextFactory"
                       THEN OGLSetPresentAvailable(fut.f, available) ELSE @,
                 !.requested = available,
                 !.calls = @ \cup {"SetPresentAvailable"}]

\* The draw context of the factory constructed
FactoryDrawContext ==
  IF fut.kind = "AgusOGLContextFactory" THEN fut.f.m_drawContext
                                        ELSE fut.w.f.m_drawContext

\* IsValid() of the factory constructed
FactoryIsValid ==
  IF fut.kind = "AgusOGLContextFactory" THEN OGLIsValid(fut.f)
                                        ELSE IsValid(fut.w)

FactoryFrame == <<coreVars, notifier, plugin, gui, egl, req, reg>>

FactoryConstructAngleStep == FactoryConstructAngle /\ UNCHANGED FactoryFrame
FactoryResizeStep == FactoryResize /\ UNCHANGED FactoryFrame
FactoryGetDrawContextStep == FactoryGetDrawContext /\ UNCHANGED FactoryFrame
FactoryGetResourcesUploadContextStep ==
  FactoryGetResourcesUploadContext /\ UNCHANGED FactoryFrame
FactoryConstructOGLStep == FactoryConstructOGL /\ UNCHANGED FactoryFrame
FactorySetSurfaceStep == FactorySetSurface /\ UNCHANGED FactoryFrame
FactoryOGLGetDrawContextStep ==
  FactoryOGLGetDrawContext /\ UNCHANGED FactoryFrame
FactoryOGLGetResourcesUploadContextStep ==
  FactoryOGLGetResourcesUploadContext /\ UNCHANGED FactoryFrame
FactorySetPresentAvailableStep ==
  FactorySetPresentAvailable /\ UNCHANGED FactoryFrame

NextFactory ==
  \/ FactoryConstructAngleStep
  \/ FactoryResizeStep
  \/ FactoryGetDrawContextStep
  \/ FactoryGetResourcesUploadContextStep
  \/ FactoryConstructOGLStep
  \/ FactorySetSurfaceStep
  \/ FactoryOGLGetDrawContextStep
  \/ FactoryOGLGetResourcesUploadContextStep
  \/ FactorySetPresentAvailableStep

SpecFactory == Init /\ [][NextFactory]_vars

-----------------------------------------------------------------------------
(* AgusAngleContext and AgusOGLContext taken by themselves: their          *)
(* MakeCurrent, DoneCurrent, Present, Validate, SetPresentAvailable,       *)
(* SetSurface and ResetSurface are the same statements in both classes.    *)
(* egl.current[t] is what eglGetCurrentContext returns on thread t.        *)

Roles == {"draw", "upload"}

\* eglMakeCurrent fails for a context that is current on another thread;
\* otherwise it may bind the context or fail (the surface was destroyed).
\* A call that fails leaves the thread's binding as it was.
MakeCurrentOutcomes(t, c) ==
  IF \E u \in GLThreads \ {t} : egl.current[u] = c.m_nativeContext
  THEN {FALSE} ELSE BOOLEAN

\* AgusAngleContext::MakeCurrent, AgusOGLContext::MakeCurrent: what the
\* call did
MakeCurrentResult(c, result) ==
  IF c.m_surface = 0 THEN "no surface"
  ELSE IF result THEN "bound" ELSE "failed"

\* A Present that looks at the flag only.
PresentsWhenAvailable(c) == c.m_presentAvailable

\* Present, agus_angle_context_factory.cpp line 163, agus_ogl.cpp line 72:
\* whether glFinish, or eglSwapBuffers, is called
Presents(c) == c.m_presentAvailable /\ c.m_surface # 0

\* Validate, given what eglGetCurrentContext returns on the calling thread
Validate(c, currentContext) == c.m_presentAvailable /\ currentContext # 0

Called(op, t, r, ret) == [op |-> op, thread |-> t, role |-> r, ret |-> ret]

ContextMakeCurrent(t, r) ==
  \E result \in MakeCurrentOutcomes(t, egl.ctx[r]) :
    LET did == MakeCurrentResult(egl.ctx[r], result)
    IN egl' = [egl EXCEPT
                 !.current[t] = IF did = "bound"
                                THEN egl.ctx[r].m_nativeContext ELSE @,
                 !.last = Called("MakeCurrent", t, r, did)]

ContextDoneCurrent(t, r) ==
  egl' = [egl EXCEPT !.current[t] = 0,
                     !.last = Called("DoneCurrent", t, r, "none")]

ContextPresent(t, r) ==
  egl' = [egl EXCEPT
            !.last = Called("Present", t, r,
                            IF Presents(egl.ctx[r]) THEN "submitted"
                                                    ELSE "nothing")]

ContextValidate(t, r) ==
  egl' = [egl EXCEPT
            !.last = Called("Validate", t, r,
                            IF Validate(egl.ctx[r], egl.current[t])
                            THEN "true" ELSE "false")]

ContextSetPresentAvailableCall(t, r, available) ==
  egl' = [egl EXCEPT
            !.ctx[r] = ContextSetPresentAvailable(@, available),
            !.last = Called("SetPresentAvailable", t, r, "none")]

ContextSetSurfaceCall(t, r, surface) ==
  egl' = [egl EXCEPT !.ctx[r] = ContextSetSurface(@, surface),
                     !.last = Called("SetSurface", t, r, "none")]

\* AgusAngleContext::ResetSurface, AgusOGLContext::ResetSurface
ContextResetSurface(t, r) ==
  egl' = [egl EXCEPT !.ctx[r].m_surface = 0,
                     !.last = Called("ResetSurface", t, r, "none")]

ContextFrame == <<coreVars, notifier, plugin, gui, fut, req, reg>>

ContextMakeCurrentStep ==
  (\E t \in GLThreads, r \in Roles : ContextMakeCurrent(t, r))
    /\ UNCHANGED ContextFrame
ContextDoneCurrentStep ==
  (\E t \in GLThreads, r \in Roles : ContextDoneCurrent(t, r))
    /\ UNCHANGED ContextFrame
ContextPresentStep ==
  (\E t \in GLThreads, r \in Roles : ContextPresent(t, r))
    /\ UNCHANGED ContextFrame
ContextValidateStep ==
  (\E t \in GLThreads, r \in Roles : ContextValidate(t, r))
    /\ UNCHANGED ContextFrame
ContextSetPresentAvailableStep ==
  (\E t \in GLThreads, r \in Roles, available \in BOOLEAN :
     ContextSetPresentAvailableCall(t, r, available))
    /\ UNCHANGED ContextFrame
ContextSetSurfaceStep ==
  (\E t \in GLThreads, r \in Roles, surface \in 1..2 :
     ContextSetSurfaceCall(t, r, surface))
    /\ UNCHANGED ContextFrame
ContextResetSurfaceStep ==
  (\E t \in GLThreads, r \in Roles : ContextResetSurface(t, r))
    /\ UNCHANGED ContextFrame

NextContext ==
  \/ ContextMakeCurrentStep
  \/ ContextDoneCurrentStep
  \/ ContextPresentStep
  \/ ContextValidateStep
  \/ ContextSetPresentAvailableStep
  \/ ContextSetSurfaceStep
  \/ ContextResetSurfaceStep

SpecContext == Init /\ [][NextContext]_vars

-----------------------------------------------------------------------------
(* SpecHandle: comaps_get_shared_handle on the compositor's thread while   *)
(* the control thread is inside comaps_resize_surface or                   *)
(* comaps_destroy_surface.  None of the three takes a lock; g_angleFactory *)
(* is a plain pointer.  The release of the shared texture is taken in its  *)
(* two statements, CloseHandle and the clearing of m_sharedHandle.         *)

\* CreateSharedTexture, lines 510-512: m_sharedTexture.Reset() and
\* CloseHandle(m_sharedHandle)
RaceCloseHandle ==
  /\ ctl.pc = "release_texture"
  /\ world' = [world EXCEPT !.f.m_sharedTexture = 0,
                            !.handles = @ \ {world.f.m_sharedHandle}]
  /\ ctl' = [ctl EXCEPT !.pc = "clear_handle"]
  /\ UNCHANGED <<engine, draw, g_factory, g_angleFactory,
                 g_drapeEngineCreated, g_surfaceWidth, g_surfaceHeight>>

\* CreateSharedTexture, line 513: m_sharedHandle = nullptr
RaceClearHandle ==
  /\ ctl.pc = "clear_handle"
  /\ world' = [world EXCEPT !.f.m_sharedHandle = 0]
  /\ ctl' = [ctl EXCEPT !.pc = "create_texture"]
  /\ UNCHANGED <<engine, draw, g_factory, g_angleFactory,
                 g_drapeEngineCreated, g_surfaceWidth, g_surfaceHeight>>

\* comaps_get_shared_handle, line 564: if (g_angleFactory); otherwise the
\* return of nullptr at line 592
RequestTest ==
  /\ req.pc = "idle"
  /\ req' = IF g_angleFactory # 0
            THEN [pc |-> "call", factory |-> g_angleFactory, handle |-> 0,
                  destroyed |-> FALSE, closed |-> FALSE]
            ELSE [pc |-> "idle", factory |-> 0, handle |-> 0,
                  destroyed |-> FALSE, closed |-> FALSE]

\* comaps_get_shared_handle, lines 572-583:
\* g_angleFactory->GetSharedTextureHandle() on the factory found at line
\* 564, and the return of what it read.  destroyed: the factory was no
\* longer alive; closed: the handle read is not an open handle.
RequestCall ==
  /\ req.pc = "call"
  /\ req' = IF g_factory # req.factory
            THEN [req EXCEPT !.pc = "idle", !.destroyed = TRUE]
            ELSE [req EXCEPT
                    !.pc = "idle",
                    !.handle = world.f.m_sharedHandle,
                    !.closed = /\ world.f.m_sharedHandle # 0
                               /\ world.f.m_sharedHandle \notin world.handles]

HandleFrame == <<g_platformInitialized, g_framework, lastCall, initVars, oglVars, notifier, plugin, gui, egl, fut, reg>>

RaceCloseHandleStep == RaceCloseHandle /\ UNCHANGED <<HandleFrame, req>>
RaceClearHandleStep == RaceClearHandle /\ UNCHANGED <<HandleFrame, req>>
RequestTestStep ==
  RequestTest /\ UNCHANGED <<winVars, raceVars, HandleFrame>>
RequestCallStep ==
  RequestCall /\ UNCHANGED <<winVars, raceVars, HandleFrame>>

NextHandle ==
  \/ RaceResizeCallStep
  \/ RaceResizeEnterStep
  \/ RaceCloseHandleStep
  \/ RaceClearHandleStep
  \/ RaceCreateTextureStep
  \/ RaceDestroySurfaceStep
  \/ RaceCreateSurfaceStep
  \/ RaceBindStep
  \/ RaceOnSizeStep
  \/ RaceDisableRenderingStep
  \/ RaceResetStep
  \/ RequestTestStep
  \/ RequestCallStep

SpecHandle == InitRace /\ [][NextHandle]_vars

-----------------------------------------------------------------------------
(* The plugin's texture registration (AgusMapsFlutterPlugin, Windows).      *)
(* The platform thread runs the createSurface and destroySurface handlers   *)
(* and the destructor; the engine's render thread runs the frame-ready      *)
(* callback: notifyFlutterFrameReady calls g_frameReadyCallback, which the   *)
(* constructor set to OnFrameReady and nothing clears.  g_plugin_instance   *)
(* and texture_id_ are plain variables and no function here takes a lock,   *)
(* so each read and each write is a step of its own.  The callback is part  *)
(* of a frame: Framework::SetRenderingDisabled(true), which                 *)
(* comaps_destroy_surface calls when the engine exists, returns only when   *)
(* the render thread is between frames.                                     *)

\* createSurface calls that reach RegisterTexture
MaxTextures == 3

\* comaps_create_surface returns 0, with the engine created, or an error
CreateSurfaceOutcomes == {"ok", "failed"}

\* TextureRegistrar::UnregisterTexture(texture_id_); texture_id_ = -1, under
\* the test texture_id_ >= 0 that both callers make
UnregisterTexture(r) ==
  IF r.texture_id_ >= 0
  THEN [r EXCEPT !.registered = @ \ {r.texture_id_}, !.texture_id_ = -1]
  ELSE r

\* The plugin object is inside or past ~AgusMapsFlutterPlugin
DestructionBegun == reg.platform \in {"dtor_destroy", "dtor_unregister", "destroyed"}

\* comaps_destroy_surface as the render thread meets it
TextureDestroySurface(next) ==
  /\ reg.engine => reg.render.pc = "idle"
  /\ reg' = [reg EXCEPT !.engine = FALSE, !.platform = next]

\* CreateSurface up to the return of comaps_create_surface
TextureCreateSurface(outcome) ==
  /\ reg.platform = "idle"
  /\ reg.created < MaxTextures
  /\ reg' = IF outcome = "ok"
            THEN [reg EXCEPT !.engine = TRUE, !.platform = "register"]
            ELSE reg

\* CreateSurface from make_unique<TextureVariant> to the end: the assignment
\* to texture_ destroys the texture it held, RegisterTexture returns a new
\* id, and the id texture_id_ held is not unregistered
TextureRegister ==
  /\ reg.platform = "register"
  /\ LET new == reg.created + 1
     IN reg' = [reg EXCEPT !.alive = (@ \ {reg.texture_}) \cup {new},
                           !.texture_ = new,
                           !.registered = @ \cup {new},
                           !.texture_id_ = new,
                           !.created = new,
                           !.platform = "idle"]

\* The destroySurface handler: comaps_destroy_surface()
TextureDestroySurfaceCall ==
  /\ reg.platform = "idle"
  /\ TextureDestroySurface("unregister")

\* The destroySurface handler after comaps_destroy_surface
TextureDestroyUnregister ==
  /\ reg.platform = "unregister"
  /\ reg' = [UnregisterTexture(reg) EXCEPT !.platform = "idle"]

\* ~AgusMapsFlutterPlugin: g_plugin_instance = nullptr
PluginDtorBegin ==
  /\ reg.platform = "idle"
  /\ reg' = [reg EXCEPT !.g_plugin_instance = FALSE, !.platform = "dtor_destroy"]

\* ~AgusMapsFlutterPlugin: comaps_destroy_surface()
PluginDtorDestroySurface ==
  /\ reg.platform = "dtor_destroy"
  /\ TextureDestroySurface("dtor_unregister")

\* ~AgusMapsFlutterPlugin: the unregistration, then the members' destructors
PluginDtorUnregister ==
  /\ reg.platform = "dtor_unregister"
  /\ reg' = [UnregisterTexture(reg) EXCEPT !.alive = @ \ {reg.texture_},
                                           !.texture_ = 0,
                                           !.platform = "destroyed"]

\* notifyFlutterFrameReady on the render thread: g_frameReadyCallback()
RenderFrameReady ==
  /\ reg.engine
  /\ reg.render.pc = "idle"
  /\ reg' = [reg EXCEPT !.render.pc = "on_frame_ready"]

\* OnFrameReady: if (g_plugin_instance)
OnFrameReady ==
  /\ reg.render.pc = "on_frame_ready"
  /\ reg' = [reg EXCEPT !.render.pc = IF reg.g_plugin_instance THEN "notify"
                                      ELSE "idle"]

\* NotifyFrameReady: if (texture_id_ >= 0 && texture_registrar_)
NotifyFrameReady ==
  /\ reg.render.pc = "notify"
  /\ reg' = [reg EXCEPT !.render = IF reg.texture_id_ >= 0
                                   THEN [pc |-> "mark", id |-> reg.texture_id_]
                                   ELSE [pc |-> "idle", id |-> -1],
                        !.ranOnDestroyed = @ \/ DestructionBegun]

\* NotifyFrameReady: texture_registrar_->MarkTextureFrameAvailable(texture_id_)
MarkTextureFrameAvailable ==
  /\ reg.render.pc = "mark"
  /\ reg' = [reg EXCEPT !.render = [pc |-> "idle", id |-> -1],
                        !.markedUnregistered = @ \/ reg.render.id \notin reg.registered,
                        !.ranOnDestroyed = @ \/ DestructionBegun]

TextureFrame == <<coreVars, notifier, plugin, gui, egl, fut, req>>

TextureCreateSurfaceStep ==
  (\E outcome \in CreateSurfaceOutcomes : TextureCreateSurface(outcome)) /\ UNCHANGED TextureFrame
TextureRegisterStep == TextureRegister /\ UNCHANGED TextureFrame
TextureDestroySurfaceCallStep == TextureDestroySurfaceCall /\ UNCHANGED TextureFrame
TextureDestroyUnregisterStep == TextureDestroyUnregister /\ UNCHANGED TextureFrame
PluginDtorBeginStep == PluginDtorBegin /\ UNCHANGED TextureFrame
PluginDtorDestroySurfaceStep == PluginDtorDestroySurface /\ UNCHANGED TextureFrame
PluginDtorUnregisterStep == PluginDtorUnregister /\ UNCHANGED TextureFrame
RenderFrameReadyStep == RenderFrameReady /\ UNCHANGED TextureFrame
OnFrameReadyStep == OnFrameReady /\ UNCHANGED TextureFrame
NotifyFrameReadyStep == NotifyFrameReady /\ UNCHANGED TextureFrame
MarkTextureFrameAvailableStep == MarkTextureFrameAvailable /\ UNCHANGED TextureFrame

NextTexture ==
  \/ TextureCreateSurfaceStep
  \/ TextureRegisterStep
  \/ TextureDestroySurfaceCallStep
  \/ TextureDestroyUnregisterStep
  \/ PluginDtorBeginStep
  \/ PluginDtorDestroySurfaceStep
  \/ PluginDtorUnregisterStep
  \/ RenderFrameReadyStep
  \/ OnFrameReadyStep
  \/ NotifyFrameReadyStep
  \/ MarkTextureFrameAvailableStep

SpecTexture == Init /\ [][NextTexture]_vars

-----------------------------------------------------------------------------
(* Properties.                                                              *)

\* C1: in AgusAngleContextFactory no WaitForInitialization call is past its
\* wait or has returned unless both calls have been entered, the counter
\* has reached 2 and the initialized flag is set; while the counter is 1 no
\* call has returned.
C1_NoReturnBeforeBothEntered ==
  /\ (rendezvous.returned > 0 \/ \E t \in GLThreads : waiter[t].pc = "unlock")
       => /\ rendezvous.entered >= 2
          /\ rendezvous.m_initializationCounter = 2
          /\ rendezvous.m_isInitialized
  /\ rendezvous.m_initializationCounter < 2 => rendezvous.returned = 0

\* The first caller was blocked and notified by the second, which is about
\* to return.
C1_FirstCallerReleased ==
  \E t \in GLThreads, u \in GLThreads :
    /\ waiter[t].pc = "notified"
    /\ waiter[u].pc = "unlock"
    /\ rendezvous.returned = 0

\* C2: in AgusOGLContextFactory (and AgusMetalContextFactory, whose
\* WaitForInitialization has the same empty body) a thread is past
\* WaitForInitialization only when both the upload context and the draw
\* context of the engine's factory have been constructed.
C2_WaitReturnsAfterBothConstructed ==
  (/\ android.engine.factory = android.g_factory
   /\ \E t \in GLThreads : android.thread[t] = "initialized")
    => /\ android.f.m_uploadContext.exists
       /\ android.f.m_drawContext.exists

\* C3: whenever a factory has a draw context it has an upload context, and
\* the draw context was created sharing with that upload context.
C3_UploadConstructedBeforeDraw ==
  android.f.m_drawContext.exists
    => /\ android.f.m_uploadContext.exists
       /\ android.f.m_drawContext.sharedContext
            = android.f.m_uploadContext.m_nativeContext

\* C4: while a Resize with changed dimensions is between releasing the
\* previous target and binding the new surface to the draw context, the
\* previous target's shared handle is still open and its Pbuffer surface
\* still exists.
C4_PreviousTargetKeptUntilBound ==
  (ctl.pc \in ResizePhases \ {"release_texture"})
    => /\ ctl.before.f.m_sharedHandle # 0
            => ctl.before.f.m_sharedHandle \in world.handles
       /\ ctl.before.f.m_pbufferSurface # 0
            => ctl.before.f.m_pbufferSurface \in world.surfaces

\* C5: no statement of Resize's body and no release by Destroy runs while
\* the draw thread is inside Present; and while the draw thread is between
\* MakeCurrent and the end of Present, the surface it made current still
\* exists and the factory that owns its context has not been deleted.
C5_NoResizeOrDestroyDuringFrame ==
  /\ ~(draw.pc = "present" /\ ctl.pc \in ResizePhases \cup {"reset"})
  /\ draw.pc # "idle"
       => /\ draw.surface = 0 \/ draw.surface \in world.surfaces
          /\ g_factory # 0

\* C6: whenever the draw context exists, the surface it is bound to is the
\* Pbuffer surface of the factory's current render target.
C6_DrawContextBoundToCurrentTarget ==
  world.f.m_drawContext.exists
    => world.f.m_drawContext.m_surface = world.f.m_pbufferSurface

\* C7: a comaps_resize_surface call in which the allocation of the new
\* texture or surface fails leaves the previous render target current: the
\* texture, its shared handle (still open) and the recorded width and
\* height are what they were before the call.
C7_FailedResizeKeepsPreviousTarget ==
  [][(lastCall'.op = "resize" /\ lastCall'.allocationFailed)
       => /\ world'.f.m_sharedTexture = world.f.m_sharedTexture
          /\ world'.f.m_sharedHandle = world.f.m_sharedHandle
          /\ world.f.m_sharedHandle \in world'.handles
          /\ world'.f.m_width = world.f.m_width
          /\ world'.f.m_height = world.f.m_height]_vars

\* C8: a comaps_resize_surface call with the width and height recorded in
\* g_surfaceWidth and g_surfaceHeight changes no state of the controller,
\* the factory or the engine and does not call Framework::OnSize; a call
\* that reaches AgusAngleContextFactory::Resize with the factory's own width
\* and height leaves the texture, the shared handle, the Pbuffer surface
\* and the draw context as they were.
C8_ResizeToSameSizeChangesNothing ==
  [][/\ (lastCall'.op = "resize" /\ lastCall'.sameSize)
          => /\ UNCHANGED <<g_platformInitialized, g_framework, g_factory,
                            g_angleFactory, g_drapeEngineCreated,
                            g_surfaceWidth, g_surfaceHeight, world, engine>>
             /\ ~lastCall'.onSize
     /\ (lastCall'.op = "resize" /\ lastCall'.sameTarget)
          => world' = world]_vars

\* A resize with the recorded size has just returned while the factory is
\* live and has a draw context.
C8_SameSizeResizeDone ==
  /\ lastCall.op = "resize" /\ lastCall.sameSize
  /\ g_angleFactory # 0
  /\ world.f.m_drawContext.exists
  /\ g_drapeEngineCreated

C9_AndroidAtMostOneDrapeEngine == android.engine.drapeEngines <= 1

\* C10 as stated: from the state comaps_destroy_surface leaves, the next
\* call leaves no live factory and no created draw engine.
C10_DestroyedIsTerminal ==
  [][lastCall.op = "destroy"
       => (g_angleFactory' = 0 /\ ~g_drapeEngineCreated')]_vars

LiveFactory == g_factory # 0 \/ g_angleFactory # 0 \/ world # NoWorld

\* C10 amended: comaps_destroy_surface leaves no live factory and no
\* created draw engine, and from such a state only a comaps_create_surface
\* call that returns 0 brings back a live factory or a created engine; no
\* comaps_resize_surface call does.
C10_OnlyCreateRevives ==
  [][/\ lastCall'.op = "destroy"
          => (~LiveFactory' /\ ~g_drapeEngineCreated')
     /\ (~LiveFactory /\ (LiveFactory' \/ g_drapeEngineCreated'))
          => (lastCall'.op = "create" /\ lastCall'.ret = 0)]_vars

\* A comaps_create_surface after a destroy has installed a second factory
\* and created the draw engine on it.
C10_RevivedAfterDestroy ==
  /\ lastCall.op = "create" /\ lastCall.ret = 0
  /\ g_factory = 2 /\ engine.factory = 2
  /\ g_drapeEngineCreated

\* C11: when Destroy returns, the factory has been released and no cached
\* pointer refers to it.  On Android Destroy is nativeOnSurfaceDestroyed:
\* after it the controller holds no factory and the factory's surfaces and
\* contexts are gone.
C11_DestroyReleasesFactory ==
  android.lastCall = "surfaceDestroyed"
    => (android.g_factory = 0 /\ android.f = NoOGLFactory)

\* The Windows half of C11: after comaps_destroy_surface neither g_factory
\* nor the raw pointer g_angleFactory refers to a factory, and the factory's
\* native objects are released.
C11_WindowsNoCachedPointer ==
  lastCall.op = "destroy"
    => (g_factory = 0 /\ g_angleFactory = 0 /\ world = NoWorld)

\* C12: at the point where comaps_destroy_surface is about to release the
\* factory, the draw context's present-available flag is already false.
C12_PresentDisabledBeforeRelease ==
  (ctl.pc = "reset" /\ world.f.m_drawContext.exists)
    => ~world.f.m_drawContext.m_presentAvailable

\* C13: two frame notifications that are delivered carry notifier times at
\* least kMinFrameInterval apart, whichever threads the frame-ready events
\* arrived on.
C13_AtMostOnePerInterval ==
  notifier.delivery.count >= 2
    => \/ notifier.delivery.last - notifier.delivery.prev >= kMinFrameInterval
       \/ notifier.delivery.prev - notifier.delivery.last >= kMinFrameInterval

\* C14: at most one thread is inside the registered callback at any time; a
\* thread that reaches the exchange while another thread is inside the
\* callback is not blocked there, and its step returns from the notifier
\* without a delivery.
C14_SingleDeliveryInProgress ==
  /\ [](/\ Cardinality({t \in NotifierThreads :
                          notifier.thread[t].pc = "callback"}) <= 1
        /\ \A t \in NotifierThreads :
             notifier.thread[t].pc = "exchange" => ENABLED NotifyExchange(t))
  /\ [][\A t \in NotifierThreads :
          (/\ notifier.thread[t].pc = "exchange"
           /\ notifier'.thread[t].pc # "exchange"
           /\ \E u \in NotifierThreads \ {t} :
                notifier.thread[u].pc = "callback")
            => /\ notifier'.thread[t].pc = "idle"
               /\ notifier'.thread[t].result = "pending"
               /\ notifier'.delivery = notifier.delivery]_vars

\* A thread was turned away at the exchange and another thread is inside
\* the callback.
C14_ArrivalDropped ==
  \E t, u \in NotifierThreads :
    /\ notifier.thread[u].pc = "callback"
    /\ notifier.thread[t].pc = "idle"
    /\ notifier.thread[t].result = "pending"

\* C15: no thread leaves notifyFlutterFrameReady by an exception: whatever
\* the registered callback throws is caught inside the notifier, which then
\* returns normally.
C15_CallbackExceptionContained ==
  \A t \in NotifierThreads : notifier.thread[t].pc # "unwound"

\* The callback threw and the notifier returned to its caller.
C15_ExceptionCaught ==
  \E t \in NotifierThreads :
    /\ notifier.thread[t].pc = "idle"
    /\ notifier.thread[t].result = "caught"

\* C16: a descriptor the obtain-descriptor callback returns carries a handle
\* that was not open before the request and is open after it; the handles
\* the compositor has not released stay open; a duplicate is closed only by
\* the release callback called with it, one at a time and by no surface
\* call or request.
C16_DuplicateOwnedByDescriptor ==
  /\ [](plugin.outstanding \subseteq plugin.duplicates)
  /\ [][/\ (plugin'.request = "descriptor"
              /\ plugin'.descriptor # plugin.descriptor)
            => /\ plugin'.descriptor.handle \notin plugin.duplicates
               /\ plugin'.descriptor.handle \in plugin'.duplicates
               /\ plugin'.descriptor.handle \in plugin'.outstanding
         /\ \A h \in plugin.duplicates \ plugin'.duplicates :
              /\ plugin'.request = "released"
              /\ h \in plugin.outstanding
              /\ plugin'.duplicates = plugin.duplicates \ {h}
              /\ plugin'.outstanding = plugin.outstanding \ {h}
              /\ world' = world]_vars

\* Two duplicates are outstanding and the surface has been destroyed since
\* they were handed out.
C16_OutstandingAcrossDestroy ==
  /\ Cardinality(plugin.outstanding) = MaxDuplicates
  /\ plugin.outstanding \subseteq plugin.duplicates
  /\ lastCall.op = "destroy"

\* C17: the width and height of a returned descriptor are the width and
\* height of the factory's current render target.
C17_DescriptorSizeIsTargetSize ==
  plugin.request = "descriptor"
    => /\ plugin.descriptor.width = world.f.m_width
       /\ plugin.descriptor.height = world.f.m_height

\* C18: while no surface exists (before the first Create and after Destroy,
\* until a Create succeeds) a descriptor request returns null.
C18_NullDescriptorWithoutSurface ==
  (g_angleFactory = 0
     /\ plugin.request \in {"null handle", "duplicate failed", "descriptor"})
    => /\ plugin.request = "null handle"
       /\ plugin.descriptor = NoDescriptor

\* A request made after destroySurface returned null.
C18_RequestAfterDestroy ==
  /\ plugin.texture_ /\ plugin.texture_id_ = -1
  /\ g_angleFactory = 0 /\ g_factory = 0
  /\ plugin.request = "null handle"

\* C19: a request whose DuplicateHandle failed returns null, opens no handle
\* and leaves the factory, its render target and its shared handle as they
\* were; no returned descriptor carries a null handle; after the failure a
\* request can return a descriptor.
C19_FailedDuplicateChangesNothing ==
  /\ [](/\ plugin.request = "descriptor"
             => (plugin.descriptor.handle # 0 /\ 0 \notin plugin.duplicates)
        /\ (/\ plugin.request = "duplicate failed"
            /\ comaps_get_shared_handle \in world.handles
            /\ Cardinality(plugin.duplicates) < MaxDuplicates)
             => ENABLED (ObtainDescriptorStep
                           /\ plugin'.request = "descriptor"))
  /\ [][plugin'.request = "duplicate failed"
          => /\ plugin'.descriptor = NoDescriptor
             /\ plugin'.duplicates = plugin.duplicates
             /\ plugin'.outstanding = plugin.outstanding
             /\ world' = world
             /\ g_angleFactory' = g_angleFactory /\ g_factory' = g_factory]_vars

\* The request after a failed DuplicateHandle returned a descriptor.
C19_RetrySucceeded ==
  /\ plugin.retried
  /\ plugin.request = "descriptor"
  /\ plugin.descriptor.handle \in plugin.duplicates

\* C20: the format a returned descriptor announces has the channel order of
\* the shared texture's format, red, green, blue, alpha.
C20_DescriptorFormatIsTextureFormat ==
  plugin.request = "descriptor"
    => /\ PixelLayout(plugin.descriptor.format) = PixelLayout(SharedTextureFormat)
       /\ PixelLayout(plugin.descriptor.format) = <<"R", "G", "B", "A">>

\* C22: when eglCreateContext returned no context for a context the factory
\* constructed, the factory reports itself invalid.
C22_FailedContextInvalidatesFactory ==
  (/\ g_angleFactory # 0
   /\ \E c \in {world.f.m_drawContext, world.f.m_uploadContext} :
        c.exists /\ c.m_nativeContext = 0)
    => ~IsValid(world)

\* C23: the installed factory and the factory the engine was given were
\* valid when they were constructed; a comaps_create_surface call that
\* returns an error leaves the installed factory, its native objects and
\* the engine as they were.
C23_InvalidFactoryNotInstalled ==
  /\ []((g_angleFactory # 0 \/ g_factory # 0) => world.f.m_isValid)
  /\ [][(lastCall'.op = "create" /\ lastCall'.ret # 0)
          => /\ g_factory' = g_factory /\ g_angleFactory' = g_angleFactory
             /\ world' = world /\ engine' = engine
             /\ g_drapeEngineCreated' = g_drapeEngineCreated]_vars

\* A Create whose factory was invalid returned -2 while an earlier factory
\* is installed.
C23_InvalidCreateKeptFactory ==
  /\ lastCall.op = "create" /\ lastCall.ret = -2
  /\ g_factory # 0 /\ g_angleFactory = g_factory /\ world.f.m_isValid

\* The Android half of C23: nativeSetSurface installs only a factory that
\* is valid.
C23_AndroidInvalidFactoryNotInstalled ==
  (android.g_factory # 0 /\ android.lastCall = "setSurface")
    => OGLIsValid(android.f)

\* C24: while a factory is installed, a draw context and an upload context
\* that exist are never replaced: every later GetDrawContext,
\* GetResourcesUploadContext and Resize leaves the same context in place.
C24_OneContextPerRole ==
  [][(g_factory # 0 /\ g_factory' = g_factory)
       => /\ world.f.m_drawContext.exists
               => /\ world'.f.m_drawContext.exists
                  /\ world'.f.m_drawContext.m_nativeContext
                       = world.f.m_drawContext.m_nativeContext
          /\ world.f.m_uploadContext.exists
               => world'.f.m_uploadContext = world.f.m_uploadContext]_vars

\* Both contexts exist and a Resize has given the factory a new target
\* since.
C24_ContextsKeptAcrossResize ==
  /\ world.f.m_drawContext.exists /\ world.f.m_uploadContext.exists
  /\ lastCall.op = "resize" /\ ~lastCall.sameSize /\ ~lastCall.sameTarget
  /\ ~lastCall.allocationFailed
  /\ world.f.m_drawContext.m_surface = world.f.m_pbufferSurface

\* C29: an installed factory that has a render target records a positive
\* width and height, and a Create or Resize called with a non-positive
\* width or height leaves the factory and its target as they were.
C29_TargetSizePositive ==
  /\ []((g_angleFactory # 0 /\ world.f.m_sharedTexture # 0)
          => (world.f.m_width > 0 /\ world.f.m_height > 0))
  /\ [][(/\ lastCall'.op \in {"create", "resize"}
         /\ (g_surfaceWidth' <= 0 \/ g_surfaceHeight' <= 0))
          => world' = world]_vars

\* C26: once the upload thread and the draw thread have both called
\* WaitForInitialization, every call that is in progress returns.
C26_BothCallsReturn ==
  \A t \in GLThreads :
    ((\A u \in GLThreads : waiter[u].calls >= 1) /\ waiter[t].pc # "idle")
      ~> (waiter[t].pc = "idle")

\* A thread blocked in the wait, was notified by the second arrival and
\* has returned together with it.
C26_WaiterReturned ==
  /\ rendezvous.m_isInitialized
  /\ rendezvous.returned >= 2
  /\ \A t \in GLThreads : waiter[t].pc = "idle" /\ waiter[t].calls = 1

\* C27: the initialized flag, once set, stays set and the counter stays as
\* it is; a call that finds the flag set goes straight to its return
\* without changing the rendezvous; the counter never exceeds 2.
C27_InitializedIsFinal ==
  /\ [](rendezvous.m_initializationCounter <= 2)
  /\ [][/\ rendezvous.m_isInitialized
            => /\ rendezvous'.m_isInitialized
               /\ rendezvous'.m_initializationCounter
                    = rendezvous.m_initializationCounter
         /\ \A t \in GLThreads :
              (/\ rendezvous.m_isInitialized
               /\ waiter[t].pc = "check" /\ waiter'[t].pc # "check")
                => /\ waiter'[t].pc = "unlock"
                   /\ rendezvous' = rendezvous]_vars

\* A call made after the rendezvous completed has returned.
C27_LaterCallReturned ==
  /\ rendezvous.m_isInitialized
  /\ rendezvous.returned >= 3
  /\ rendezvous.m_initializationCounter = 2

\* C30: the tasks the worker of AgusGuiThreadWin has started are the first
\* of the accepted tasks, in the order of their acceptance (so none is
\* started twice); at most one task is in execution; a Push called once
\* m_running is false is refused and leaves the queue as it is.
C30_TasksRunInPushOrder ==
  /\ [](/\ Len(gui.executed) <= Len(gui.accepted)
        /\ gui.executed = SubSeq(gui.accepted, 1, Len(gui.executed))
        /\ Cardinality(gui.running) <= 1
        /\ \A p \in Pushers :
             gui.pusher[p].late
               => /\ gui.pusher[p].result = "refused"
                  /\ gui.pusher[p].pc = "idle"
                  /\ \A i \in 1..Len(gui.accepted) :
                       gui.accepted[i] # gui.pusher[p].task)
  /\ [][\A p \in Pushers :
          (gui'.pusher[p] # gui.pusher[p] /\ gui'.pusher[p].late)
            => gui'.m_taskQueue = gui.m_taskQueue]_vars

\* Two accepted tasks were executed and a Push made after the destructor
\* cleared m_running was refused.
C30_TwoRunOneRefused ==
  /\ Len(gui.executed) >= 2
  /\ gui.running = {}
  /\ \E p \in Pushers : gui.pusher[p].late /\ gui.pusher[p].result = "refused"

\* C21: a factory whose construction failed in the initialization of the
\* platform never reports itself valid, whatever is called on it later,
\* and no later call obtains or initializes the display again.
C21_PlatformFailureIsPermanent ==
  /\ []((fut.kind # "none" /\ PlatformInitFailed(fut.constructed))
          => ~FactoryIsValid)
  /\ [][(fut.kind # "none" /\ PlatformInitFailed(fut.constructed))
          => /\ fut'.w.f.m_eglDisplay = fut.w.f.m_eglDisplay
             /\ fut'.f.m_display = fut.f.m_display
             /\ fut'.f.m_pixelbufferSurface = fut.f.m_pixelbufferSurface]_vars

\* Both kinds of factory after a failed platform initialization: on the
\* one Resize has since allocated a texture, on the other SetSurface and
\* GetDrawContext have been called.
C21_CalledAfterPlatformFailure ==
  /\ fut.kind = "AgusAngleContextFactory"
  /\ fut.constructed = "eglInitialize"
  /\ fut.w.f.m_sharedTexture # 0
  /\ {"Resize", "GetDrawContext"} \subseteq fut.calls

C21_OGLCalledAfterPlatformFailure ==
  /\ fut.kind = "AgusOGLContextFactory"
  /\ fut.constructed = "eglInitialize"
  /\ fut.f.m_drawContext.exists
  /\ {"SetSurface", "GetDrawContext"} \subseteq fut.calls

\* C25: Validate() returns true only when the calling thread has that same
\* context current and present is available; a Validate() that follows, on
\* the same thread, a MakeCurrent of the same context that found its
\* surface absent returns false.
C25_ValidateMeansThisContextBound ==
  /\ []((egl.last.op = "Validate" /\ egl.last.ret = "true")
          => /\ egl.current[egl.last.thread]
                  = egl.ctx[egl.last.role].m_nativeContext
             /\ egl.ctx[egl.last.role].m_presentAvailable)
  /\ [][(/\ egl.last.op = "MakeCurrent" /\ egl.last.ret = "no surface"
         /\ egl'.last.op = "Validate"
         /\ egl'.last.thread = egl.last.thread
         /\ egl'.last.role = egl.last.role)
          => egl'.last.ret = "false"]_vars

\* C28: Present() calls glFinish, or eglSwapBuffers, exactly when the
\* context's present-available flag is true and its surface is set; with
\* the flag false or the surface reset it calls nothing.
C28_PresentIffAvailableAndSurface ==
  [](egl.last.op = "Present"
       => (egl.last.ret = "submitted"
             <=> (/\ egl.ctx[egl.last.role].m_presentAvailable
                  /\ egl.ctx[egl.last.role].m_surface # 0)))

\* Present() was called on a context whose surface was reset while its
\* flag is true, and did nothing.
C28_PresentWithoutSurface ==
  /\ egl.last.op = "Present"
  /\ egl.last.ret = "nothing"
  /\ egl.ctx[egl.last.role].m_presentAvailable
  /\ egl.ctx[egl.last.role].m_surface = 0

\* C34: a destructor of AgusGuiThreadWin that has started returns from its
\* join.
C34_DestructorTerminates ==
  (gui.dtor # "alive") ~> (gui.dtor = "joined")

\* C35: every task that Push put into the queue is eventually started by
\* the worker.
C35_AcceptedTaskIsExecuted ==
  \A task \in 1..MaxPushes :
    (\E i \in 1..Len(gui.accepted) : gui.accepted[i] = task)
      ~> (\E i \in 1..Len(gui.executed) : gui.executed[i] = task)

\* C32: when no thread is inside notifyFlutterFrameReady the single-flight
\* flag g_frameNotificationPending is false.
C32_PendingOnlyDuringDelivery ==
  (\A t \in NotifierThreads : notifier.thread[t].pc = "idle")
    => ~notifier.g_frameNotificationPending

\* C36: a comaps_resize_surface that follows a resize whose reallocation
\* failed, with the dimensions of that resize, is neither returned from as
\* a resize to the unchanged size nor skipped by the factory as a Resize to
\* its own size.
C36_FailedResizeIsRetried ==
  [][(/\ lastCall.op = "resize" /\ lastCall.allocationFailed
      /\ lastCall'.op = "resize"
      /\ g_surfaceWidth' = g_surfaceWidth
      /\ g_surfaceHeight' = g_surfaceHeight)
       => (~lastCall'.sameSize /\ ~lastCall'.sameTarget)]_vars

\* C39: the draw context of a factory has the present-availability that
\* was last requested through the factory's SetPresentAvailable, and its
\* Present() acts accordingly.
C39_RequestedAvailabilityReachesDrawContext ==
  (fut.kind # "none" /\ FactoryDrawContext.exists)
    => /\ FactoryDrawContext.m_presentAvailable = fut.requested
       /\ (~fut.requested => ~Presents(FactoryDrawContext))

\* C31: while g_drapeEngineCreated is true the factory the engine was
\* given in CreateDrapeEngine is the factory g_factory owns: it has not
\* been destroyed or replaced.
C31_EngineFactoryAlive ==
  g_drapeEngineCreated => (engine.factory # 0 /\ engine.factory = g_factory)

\* C31 on Android, where nativeOnSurfaceDestroyed leaves
\* g_drapeEngineCreated set and a later nativeSetSurface installs a new
\* factory.
C31_AndroidEngineFactoryAlive ==
  android.g_drapeEngineCreated
    => (android.engine.factory # 0
        /\ android.engine.factory = android.g_factory)

\* C33: a comaps_get_shared_handle request never calls into a factory that
\* has been destroyed and never returns a shared handle that is closed.
C33_RequestSeesLiveFactoryAndOpenHandle ==
  ~req.destroyed /\ ~req.closed

\* The two halves of C33 taken apart.
C33_NoDestroyedFactory == ~req.destroyed

C33_NoClosedHandle == ~req.closed

\* C37: the registrar holds at most one id of the plugin, the texture behind
\* every registered id is alive, and nothing is registered once the plugin
\* is destroyed.
C37_OneLiveTextureRegistered ==
  /\ Cardinality(reg.registered) <= 1
  /\ reg.registered \subseteq reg.alive
  /\ (reg.platform = "destroyed" => reg.registered = {})

C37_EarlierIdLeftWithDestroyedTexture ==
  /\ reg.platform = "idle"
  /\ Cardinality(reg.registered) = 2
  /\ \E id \in reg.registered : id # reg.texture_id_ /\ id \notin reg.alive

C37_DestroyedPluginLeavesIdRegistered ==
  reg.platform = "destroyed" /\ reg.registered # {}

\* C38: MarkTextureFrameAvailable is called only with an id registered at
\* that moment, and no statement of NotifyFrameReady runs once the plugin's
\* destructor has begun.
C38_NotificationSeesLivePlugin ==
  ~reg.markedUnregistered /\ ~reg.ranOnDestroyed

C38_NotifyRanDuringDestruction ==
  reg.ranOnDestroyed /\ ~reg.markedUnregistered

C38_MarkedOnlyRegisteredIds == ~reg.markedUnregistered

=============================================================================
